---- MODULE Spec2Model ----
(***************************************************************************)
(* Ops-Copilot: the tail-and-forward loop of tools/tail_ingest.py (position *)
(* bookmark, forwarder) and the aggregation store of app/store.py.          *)
(*                                                                          *)
(* SpecTail  : tail_ingest.main against a log file that is appended,        *)
(*             rotated and truncated, with crashes and restarts.            *)
(* SpecStore : InMemoryStore with upsert_events applied one call at a time. *)
(* SpecConc  : two request handlers running upsert_events concurrently.     *)
(***************************************************************************)
EXTENDS Integers, Sequences, FiniteSets, TLC

\* ------------------------------------------------------------------ bounds
MaxLines == 2          \* lines a log file holds at most
MaxInode == 2          \* file identities the log path goes through
MaxLegacyOffset == 2   \* largest offset of a legacy (plain integer) bookmark
MaxUpserts == 2        \* events passed to the store in one behaviour
MaxTs == 2             \* latest local time an event timestamp names
MaxNow == 1            \* latest reading of the store's wall clock

\* ------------------------------------------------------- program constants
RETRY_MAX == 3           \* INGEST_RETRY_MAX default
RETRY_BACKOFF == 3       \* INGEST_RETRY_BACKOFF default 0.3 s, in tenths of a second
SAVE_EVERY == 10         \* 1.0 s between two saves of the bookmark, in tenths

VARIABLES
    \* --- environment of tail_ingest
    files,        \* inode -> sequence of line lengths (bytes) of that file
    pathInode,    \* inode of the file now at LOG_PATH
    bookmark,     \* contents of STATE_PATH
    \* --- the tail_ingest process
    pc,           \* "down" | "running"
    st,           \* TailState held by main: [inode, offset]
    fInode,       \* inode of the file the open handle f refers to
    fpos,         \* read position of f (f.tell())
    overdue,      \* time.time() - last_save > 1.0
    \* --- history of the tail loop
    boot,         \* what the last startup saw and did
    lastOp,       \* the last step taken
    lastIter,     \* st.offset, f.tell() and bookmark before the last loop iteration
    \* --- InMemoryStore
    _events,      \* event_id -> Event
    _agg,         \* fingerprint -> reference to an _AggRecord (0: no entry)
    recs,         \* the _AggRecord objects, by reference
    _agg_event,   \* fingerprint -> reference to an aggregate-view Event (0: no entry)
    aevs,         \* the aggregate-view Event objects, by reference
    \* --- request handlers running upsert_events in worker threads
    th,           \* thread -> position in upsert_events and its locals
    \* --- history of the store
    nUp,          \* events passed to upsert_events so far
    applied,      \* fingerprint -> events with that fingerprint passed so far
    incr,         \* fingerprint -> first and latest timestamp, while increasing
    seen,         \* fingerprint -> earliest and latest instant, while all valid
    lastUp,       \* the last sequential upsert and the aggregate before it
    \* --- save_state taken step by step
    tmpfile,      \* contents of STATE_PATH + ".tmp"
    sv,           \* the save_state call: position, argument, bookmark before it
    \* --- post_with_retry taken attempt by attempt
    rq,           \* the call: position, responses, attempts made, waits, result
    \* --- Desensitizer
    mapfile,      \* contents of cfg.mapping_path
    des,          \* the Desensitizer instance of the running process
    dl,           \* the last desensitize_line call and the state it started from
    issued,       \* per secret and raw value, the first token handed out
    \* --- syslog classification: tail_ingest and POST /api/ingest/syslog
    tl,           \* the line tail_ingest read last and what it posts for it
    api,          \* the last request to ingest_syslog and the Event it stored
    \* --- reads of InMemoryStore
    rd,           \* the last list_events, recent_events or get_event call
    \* --- the body of the tail loop
    lp,           \* configuration, line read, tap file and requests made
    \* --- desensitize_line applied twice
    mk            \* the text, and text and mapping after each application

tailVars == <<files, pathInode, bookmark, pc, st, fInode, fpos,
              overdue, boot, lastOp, lastIter>>
storeVars == <<_events, _agg, recs, _agg_event, aevs>>
histVars == <<nUp, applied, incr, seen, lastUp>>
saveVars == <<tmpfile, sv>>
retryVars == <<rq>>
desVars == <<mapfile, des, dl, issued>>
sysVars == <<tl, api>>
readVars == <<rd>>
loopVars == <<lp>>
maskVars == <<mk>>
sideVars == <<saveVars, retryVars, desVars, sysVars, readVars, loopVars, maskVars>>
vars == <<tailVars, storeVars, th, histVars, sideVars>>

Max(a, b) == IF a >= b THEN a ELSE b
Min(a, b) == IF a <= b THEN a ELSE b
First(S) == CHOOSE i \in S : \A j \in S : i <= j

\* ================================================================ log file
Inodes == 1..MaxInode
LineLens == {1, 2}      \* bytes of a line, newline included

RECURSIVE SumLens(_)
SumLens(f) == IF f = <<>> THEN 0 ELSE Head(f) + SumLens(Tail(f))

\* os.stat(path).st_size / f.seek(0, os.SEEK_END)
_file_size(f) == SumLens(f)

\* f.readline(): the position after the line that holds byte pos; pos itself
\* when there is nothing to read at pos.
RECURSIVE LineEndFrom(_, _, _, _)
LineEndFrom(f, i, acc, pos) ==
    IF i > Len(f) THEN pos
    ELSE IF acc + f[i] > pos THEN acc + f[i]
    ELSE LineEndFrom(f, i + 1, acc + f[i], pos)

readline(f, pos) == LineEndFrom(f, 1, 0, pos)

\* ================================================================ bookmark
Absent == [kind |-> "absent"]
Corrupt == [kind |-> "corrupt"]
Legacy(off) == [kind |-> "legacy", offset |-> off]
Json(ino, off) == [kind |-> "json", inode |-> ino, offset |-> off]

NoState == [inode |-> 0, offset |-> 0]

load_state(bm) ==
    CASE bm.kind = "absent" -> [inode |-> 0, offset |-> 0]
      [] bm.kind = "legacy" -> [inode |-> 0, offset |-> bm.offset]
      [] bm.kind = "json"   -> [inode |-> bm.inode, offset |-> bm.offset]
      [] OTHER              -> [inode |-> 0, offset |-> 0]

\* save_state: what each way of ending leaves at STATE_PATH. Everything
\* before os.replace touches STATE_PATH + ".tmp" only, a file nothing reads.
\*   "ok"     both steps done
\*   "open"   makedirs or opening the temporary file raised
\*   "write"  the write of the temporary file raised
\*   "rename" os.replace raised
SaveOutcomes == {"ok", "open", "write", "rename"}

save_state_no_inode(s, bm, how) == IF how = "ok" THEN Json(0, s.offset) ELSE bm

save_state(s, bm, how) == IF how = "ok" THEN Json(s.inode, s.offset) ELSE bm

\* =============================================================== forwarder
\* post_with_retry: outcomes[i] is whether attempt i succeeds. No attempt is
\* made after the first success, so only the outcomes up to it are varied.
Outcomes ==
    {o \in [1..RETRY_MAX -> BOOLEAN] :
        \A i, j \in 1..RETRY_MAX : (i < j /\ o[i]) => o[j]}

RECURSIVE RetryFrom(_, _)
RetryFrom(outcomes, i) ==
    IF i > RETRY_MAX THEN FALSE
    ELSE IF outcomes[i] THEN TRUE
    ELSE RetryFrom(outcomes, i + 1)

post_with_retry(outcomes) == RetryFrom(outcomes, 1)

\* Line 266: time.sleep(RETRY_BACKOFF * (i + 1)) after the failed attempt
\* i + 1, the last one included. Times are in tenths of a second.
RECURSIVE SleepFrom(_, _)
SleepFrom(outcomes, i) ==
    IF i > RETRY_MAX THEN 0
    ELSE IF outcomes[i] THEN 0
    ELSE RETRY_BACKOFF * i + SleepFrom(outcomes, i + 1)

retry_sleep(outcomes) == SleepFrom(outcomes, 1)


\* ================================================= tail_ingest.main: startup
\* Lines 321-330: the offset main keeps of the loaded state, before the
\* "0 means start at end-of-file" rule.
checked_offset_no_inode(loaded, cur_inode, end) ==
    IF loaded.offset > end THEN 0 ELSE loaded.offset

checked_offset(loaded, cur_inode, end) ==
    LET off1 == IF loaded.inode # 0 /\ loaded.inode # cur_inode
                THEN 0 ELSE loaded.offset
    IN IF off1 > end THEN 0 ELSE off1

\* Lines 333-341: where reading starts, and whether the bookmark is written.
start_position_eof(off, end) == [offset |-> end, save |-> TRUE]

start_position(off, end) ==
    IF off = 0 THEN [offset |-> end, save |-> TRUE]
    ELSE [offset |-> off, save |-> FALSE]

\* A file that is neither at the path nor held open is gone.
Unlinked(fs, path, held) ==
    [i \in Inodes |-> IF i = path \/ i = held THEN fs[i] ELSE <<>>]

NoBoot == [bm |-> Absent, inode |-> 0, size |-> 0]
NoIter == [offset |-> 0, fpos |-> 0, bookmark |-> Absent, due |-> FALSE]

Die ==
    /\ pc' = "down"
    /\ st' = NoState
    /\ fInode' = 0
    /\ fpos' = 0
    /\ overdue' = FALSE
    /\ boot' = NoBoot
    /\ lastIter' = NoIter
    /\ files' = Unlinked(files, pathInode, 0)

Startup ==
    /\ pc = "down"
    /\ LET cur_inode == pathInode
           end == _file_size(files[pathInode])
           off == checked_offset(load_state(bookmark), cur_inode, end)
           sp == start_position(off, end)
           s == [inode |-> cur_inode, offset |-> sp.offset]
       IN \E how \in (IF sp.save THEN SaveOutcomes ELSE {"ok"}) :
            /\ bookmark' = (IF sp.save THEN save_state(s, bookmark, how)
                            ELSE bookmark)
            /\ IF how = "ok"
               THEN /\ pc' = "running"
                    /\ st' = s
                    /\ fInode' = cur_inode
                    /\ fpos' = sp.offset
                    /\ overdue' = FALSE
                    /\ boot' = [bm |-> bookmark, inode |-> cur_inode, size |-> end]
                    /\ lastIter' = NoIter
                    /\ files' = files
                    /\ lastOp' = "startup"
               ELSE \* save_state raised: the exception leaves main
                    /\ Die
                    /\ lastOp' = "startup_died"
    /\ UNCHANGED pathInode

\* ============================================== tail_ingest.main: tail loop
\* Lines 411-419: the offset st holds after an iteration.
commit_offset_always(ok, offset, tell) == tell

commit_offset_reset(ok, offset, tell) == IF ok THEN tell ELSE 0

commit_offset(ok, offset, tell) == IF ok THEN tell ELSE offset

\* Line 414: time.time() - last_save > 1.0 when the line has been handled.
\* Reading, the back-off sleep and the POST attempts take any amount of time;
\* once more than 1.0 s have passed they have passed until the next save.
\* The back-off sleeps alone may exceed it.
save_due(was_overdue, slept) ==
    IF was_overdue \/ slept > SAVE_EVERY THEN {TRUE} ELSE BOOLEAN

\* Lines 411-416: the bookmark is written after a forwarded line once the
\* throttle interval has passed.
throttle_never(ok, due) == FALSE

throttle_open(ok, due) == ok /\ due

\* Lines 346-419 hold no try: the iteration ends main exactly when save_state
\* raises. post_with_retry catches what its attempts raise and returns False.
iter_raises_on_failure(ok, how) == how # "ok" \/ ~ok

iter_raises(ok, how) == how # "ok"

Iter ==
    /\ pc = "running"
    /\ LET tell == readline(files[fInode], fpos)
       IN /\ tell # fpos
          /\ \E outcomes \in Outcomes :
             \E due \in save_due(overdue, retry_sleep(outcomes)) :
               LET ok == post_with_retry(outcomes)
                   s == [st EXCEPT !.offset = commit_offset(ok, st.offset, tell)]
                   saving == throttle_open(ok, due)
               IN \E how \in (IF saving THEN SaveOutcomes ELSE {"ok"}) :
                    /\ bookmark' = (IF saving THEN save_state(s, bookmark, how)
                                    ELSE bookmark)
                    /\ IF ~iter_raises(ok, how)
                       THEN /\ pc' = "running"
                            /\ st' = s
                            /\ fInode' = fInode
                            /\ fpos' = tell
                            /\ overdue' = IF saving THEN FALSE ELSE due
                            /\ boot' = NoBoot
                            /\ files' = files
                            /\ lastIter' = [offset |-> st.offset, fpos |-> fpos,
                                            bookmark |-> bookmark, due |-> due]
                            /\ lastOp' = IF ok THEN "iter_ok" ELSE "iter_fail"
                       ELSE \* save_state raised: the exception leaves main
                            /\ Die
                            /\ lastOp' = IF saving THEN "save_died" ELSE "fail_died"
    /\ UNCHANGED pathInode

\* Lines 347-350: nothing to read, sleep and poll again, until the 1.0 s
\* have passed.
Idle ==
    /\ pc = "running"
    /\ readline(files[fInode], fpos) = fpos
    /\ ~overdue
    /\ overdue' = TRUE
    /\ lastOp' = "idle"
    /\ lastIter' = NoIter
    /\ boot' = NoBoot
    /\ UNCHANGED <<files, pathInode, bookmark, pc, st, fInode, fpos>>

\* The process is killed.
Crash ==
    /\ pc = "running"
    /\ Die
    /\ lastOp' = "crash"
    /\ UNCHANGED <<pathInode, bookmark>>

\* ------------------------------------------------- the log writer, logrotate
EnvFrame ==
    /\ lastOp' = "env"
    /\ lastIter' = NoIter
    /\ boot' = NoBoot
    /\ UNCHANGED <<bookmark, pc, st, fInode, fpos, overdue>>

AppendLine ==
    /\ Len(files[pathInode]) < MaxLines
    /\ \E n \in LineLens : files' = [files EXCEPT ![pathInode] = Append(@, n)]
    /\ UNCHANGED pathInode
    /\ EnvFrame

\* logrotate "create": a new, empty file appears at the path.
Rotate ==
    /\ pathInode < MaxInode
    /\ pathInode' = pathInode + 1
    /\ files' = Unlinked(files, pathInode + 1, fInode)
    /\ EnvFrame

\* logrotate "copytruncate": the file at the path is cut to zero bytes.
Truncate ==
    /\ files[pathInode] # <<>>
    /\ files' = [files EXCEPT ![pathInode] = <<>>]
    /\ UNCHANGED pathInode
    /\ EnvFrame

InitBookmarks == {Absent, Corrupt} \cup {Legacy(o) : o \in 0..MaxLegacyOffset}

TailInit ==
    /\ files = [i \in Inodes |-> <<>>]
    /\ pathInode = 1
    /\ bookmark \in InitBookmarks
    /\ pc = "down"
    /\ st = NoState
    /\ fInode = 0
    /\ fpos = 0
    /\ overdue = FALSE
    /\ boot = NoBoot
    /\ lastOp = "init"
    /\ lastIter = NoIter


\* ============================================================ InMemoryStore
EventIds == {"e1", "e2"}
TzOffsets == {0, 1}
Fingerprints == {<<"a">>, <<"b">>}

\* Event.ts is a string: an ISO-8601 local time t with UTC offset off, or a
\* string datetime.fromisoformat rejects.
ValidTs == {[valid |-> TRUE, t |-> t, off |-> o] : t \in 1..MaxTs, o \in TzOffsets}
BadTs == [valid |-> FALSE, t |-> 0, off |-> 0]
Timestamps == ValidTs \cup {BadTs}
NowVals == 0..MaxNow

\* Each _parse_ts call on a string that does not parse reads the clock anew.
\* An update makes four calls (lines 124 and 127, left operand first): their
\* readings, in call order.
Clocks ==
    {c \in [1..4 -> NowVals] : \A i, j \in 1..4 : i < j => c[i] <= c[j]}
NoClock == [i \in 1..4 |-> 0]

\* _parse_ts: the UTC instant the string names; the current time when it is
\* empty or does not parse.
_parse_ts_local(s, now) == IF s.valid THEN s.t ELSE now

_parse_ts(s, now) == IF s.valid THEN s.t - s.off ELSE now

\* Event.fingerprint as a sequence of characters; <<>> is None as well as "".
FpInputs == {<<>>, <<" ">>, <<"a">>, <<"a", " ">>, <<"b">>}

TitleOf(id) == IF id = "e1" THEN "t1" ELSE "t2"

Events ==
    {[event_id |-> i, ts |-> s, fingerprint |-> f, title |-> TitleOf(i)] :
        i \in EventIds, s \in Timestamps, f \in FpInputs}

NoEvent == [event_id |-> "", ts |-> BadTs, fingerprint |-> <<>>, title |-> ""]
NoRec == [event_id |-> "", fingerprint |-> <<>>, count |-> 0,
          first_seen |-> BadTs, last_seen |-> BadTs]

\* str.strip()
RECURSIVE lstrip(_)
lstrip(s) == IF s # <<>> /\ Head(s) = " " THEN lstrip(Tail(s)) ELSE s

RECURSIVE rstrip(_)
rstrip(s) ==
    IF s # <<>> /\ s[Len(s)] = " " THEN rstrip(SubSeq(s, 1, Len(s) - 1)) ELSE s

strip(s) == rstrip(lstrip(s))

\* Line 96: fp = (e.fingerprint or "").strip()
fp_of(e) == strip(e.fingerprint)

\* Lines 106-112
new_rec_count0(e, fp) ==
    [event_id |-> e.event_id, fingerprint |-> fp, count |-> 0,
     first_seen |-> e.ts, last_seen |-> e.ts]

new_rec(e, fp) ==
    [event_id |-> e.event_id, fingerprint |-> fp, count |-> 1,
     first_seen |-> e.ts, last_seen |-> e.ts]

\* Lines 114-116
new_view(e, fp) ==
    [event_id |-> e.event_id, ts |-> e.ts, fingerprint |-> fp, title |-> e.title,
     aggregate |-> [count |-> 1, first_seen |-> e.ts, last_seen |-> e.ts]]

\* Lines 124-125
keep_first(rec, e, now) ==
    IF _parse_ts(e.ts, now[1]) < _parse_ts(rec.first_seen, now[2])
    THEN [rec EXCEPT !.first_seen = e.ts]
    ELSE rec

\* Lines 127-129
keep_last(rec, e, now) ==
    IF _parse_ts(e.ts, now[3]) > _parse_ts(rec.last_seen, now[4])
    THEN [rec EXCEPT !.last_seen = e.ts, !.event_id = e.event_id]
    ELSE rec

\* Line 122
add_count_down(rec) == [rec EXCEPT !.count = @ - 1]

add_count_skip(rec) == rec

add_count(rec) == [rec EXCEPT !.count = @ + 1]

\* Lines 132-139
sync_view_count_only(agg_e, rec) ==
    [agg_e EXCEPT !.aggregate.count = rec.count, !.event_id = rec.event_id]

sync_view(agg_e, rec) ==
    [agg_e EXCEPT !.aggregate = [count |-> rec.count,
                                 first_seen |-> rec.first_seen,
                                 last_seen |-> rec.last_seen],
                  !.event_id = rec.event_id,
                  !.ts = rec.last_seen]

TheStore ==
    [events |-> _events, agg |-> _agg, recs |-> recs,
     agg_event |-> _agg_event, aevs |-> aevs]

\* Lines 102-118: first sighting of fp
create(S, e, fp) ==
    [S EXCEPT !.recs = Append(@, new_rec(e, fp)),
              !.agg[fp] = Len(S.recs) + 1,
              !.aevs = Append(@, new_view(e, fp)),
              !.agg_event[fp] = Len(S.aevs) + 1]

\* Lines 120-139: fp already has an aggregate
update(S, e, fp, now) ==
    LET r == S.agg[fp]
        rec == keep_last(keep_first(add_count(S.recs[r]), e, now), e, now)
        a == S.agg_event[fp]
    IN [S EXCEPT !.recs[r] = rec, !.aevs[a] = sync_view(@, rec)]

\* Lines 91-139: the loop body for one element of events
upsert_event(S, e, now) ==
    LET S1 == [S EXCEPT !.events[e.event_id] = e]
        fp == fp_of(e)
    IN IF fp = <<>> THEN S1
       ELSE IF S1.agg[fp] = 0 THEN create(S1, e, fp)
       ELSE update(S1, e, fp, now)

\* nows[i] holds the clock readings taken while events[i] is handled.
RECURSIVE upsert_events(_, _, _)
upsert_events(S, events, nows) ==
    IF events = <<>> THEN S
    ELSE upsert_events(upsert_event(S, Head(events), Head(nows)),
                       Tail(events), Tail(nows))

\* The clock is read only for an update with a timestamp that does not parse.
readings(e) ==
    LET fp == fp_of(e)
    IN IF fp # <<>> /\ _agg[fp] # 0
          /\ ~(e.ts.valid /\ recs[_agg[fp]].first_seen.valid
                           /\ recs[_agg[fp]].last_seen.valid)
       THEN Clocks ELSE {NoClock}

\* ------------------------------------------------------- history of upserts
\* The UTC instant a valid timestamp string names.
Instant(ts) == ts.t - ts.off

IncrOff == [on |-> FALSE, first |-> BadTs, last |-> BadTs]
SeenOff == [valid |-> FALSE, low |-> 0, high |-> 0]

NoteIncr(h, n, ts) ==
    IF ~ts.valid THEN IncrOff
    ELSE IF n = 0 THEN [on |-> TRUE, first |-> ts, last |-> ts]
    ELSE IF h.on /\ Instant(ts) > Instant(h.last)
         THEN [h EXCEPT !.last = ts]
    ELSE IncrOff

NoteSeen(h, n, ts) ==
    IF ~ts.valid THEN SeenOff
    ELSE IF n = 0 THEN [valid |-> TRUE, low |-> Instant(ts), high |-> Instant(ts)]
    ELSE IF h.valid
         THEN [h EXCEPT !.low = Min(@, Instant(ts)), !.high = Max(@, Instant(ts))]
    ELSE SeenOff

NoteCall(e) ==
    LET fp == fp_of(e)
    IN /\ nUp' = nUp + 1
       /\ IF fp = <<>>
          THEN UNCHANGED <<applied, incr, seen>>
          ELSE /\ applied' = [applied EXCEPT ![fp] = @ + 1]
               /\ incr' = [incr EXCEPT ![fp] = NoteIncr(@, applied[fp], e.ts)]
               /\ seen' = [seen EXCEPT ![fp] = NoteSeen(@, applied[fp], e.ts)]

NoUp == [kind |-> "none"]

\* The event the last sequential upsert was given.
LastEvent == _events[lastUp.id]

\* ----------------------------------------- upsert_events, one call at a time
IdleThread == [pc |-> "idle", e |-> NoEvent, rec |-> 0, cnt |-> 0, agg_e |-> 0]
Threads == {1, 2}
Quiescent == \A t \in Threads : th[t].pc = "idle"

Upsert ==
    /\ Quiescent
    /\ nUp < MaxUpserts
    /\ \E e \in Events : \E now \in readings(e) :
         LET S == upsert_events(TheStore, <<e>>, <<now>>)
             fp == fp_of(e)
             existed == fp # <<>> /\ _agg[fp] # 0
         IN /\ _events' = S.events
            /\ _agg' = S.agg
            /\ recs' = S.recs
            /\ _agg_event' = S.agg_event
            /\ aevs' = S.aevs
            /\ NoteCall(e)
            /\ lastUp' = [kind |-> "upsert", id |-> e.event_id, fp |-> fp,
                          existed |-> existed,
                          before |-> IF existed THEN recs[_agg[fp]] ELSE NoRec,
                          replay |-> _events[e.event_id] = e,
                          ev |-> e]
    /\ UNCHANGED th

\* ------------------------- upsert_events in two worker threads, no lock held
\* Events the concurrent handlers are given: their timestamps parse, so no
\* clock is read.
ConcEvents ==
    {e \in Events : e.ts.valid /\ e.ts.off = 0 /\ e.fingerprint \in {<<>>, <<"a">>}}

Goto(t, label) == th' = [th EXCEPT ![t].pc = label]
Return(t) == th' = [th EXCEPT ![t] = IdleThread]

\* The handler is entered with events = [e].
Call(t) ==
    /\ th[t].pc = "idle"
    /\ nUp < MaxUpserts
    /\ \E e \in ConcEvents :
         /\ th' = [th EXCEPT ![t] = [IdleThread EXCEPT !.pc = "store_event", !.e = e]]
         /\ NoteCall(e)
    /\ lastUp' = NoUp
    /\ UNCHANGED storeVars

\* Lines 93-100
StoreEvent(t) ==
    /\ th[t].pc = "store_event"
    /\ _events' = [_events EXCEPT ![th[t].e.event_id] = th[t].e]
    /\ IF fp_of(th[t].e) = <<>> THEN Return(t) ELSE Goto(t, "lookup")
    /\ UNCHANGED <<_agg, recs, _agg_event, aevs, histVars>>

\* Line 103
Lookup(t) ==
    /\ th[t].pc = "lookup"
    /\ IF _agg[fp_of(th[t].e)] = 0 THEN Goto(t, "create_rec") ELSE Goto(t, "get_rec")
    /\ UNCHANGED <<storeVars, histVars>>

\* Lines 104-112
CreateRec(t) ==
    /\ th[t].pc = "create_rec"
    /\ recs' = Append(recs, new_rec(th[t].e, fp_of(th[t].e)))
    /\ _agg' = [_agg EXCEPT ![fp_of(th[t].e)] = Len(recs) + 1]
    /\ Goto(t, "create_view")
    /\ UNCHANGED <<_events, _agg_event, aevs, histVars>>

\* Lines 114-118
CreateView(t) ==
    /\ th[t].pc = "create_view"
    /\ aevs' = Append(aevs, new_view(th[t].e, fp_of(th[t].e)))
    /\ _agg_event' = [_agg_event EXCEPT ![fp_of(th[t].e)] = Len(aevs) + 1]
    /\ Return(t)
    /\ UNCHANGED <<_events, _agg, recs, histVars>>

\* Line 121
GetRec(t) ==
    /\ th[t].pc = "get_rec"
    /\ th' = [th EXCEPT ![t].pc = "read_count", ![t].rec = _agg[fp_of(th[t].e)]]
    /\ UNCHANGED <<storeVars, histVars>>

\* Line 122, rec.count += 1: the load
ReadCount(t) ==
    /\ th[t].pc = "read_count"
    /\ th' = [th EXCEPT ![t].pc = "write_count", ![t].cnt = recs[th[t].rec].count]
    /\ UNCHANGED <<storeVars, histVars>>

\* Line 122, rec.count += 1: the store
WriteCount(t) ==
    /\ th[t].pc = "write_count"
    /\ recs' = [recs EXCEPT ![th[t].rec].count = th[t].cnt + 1]
    /\ Goto(t, "first_seen")
    /\ UNCHANGED <<_events, _agg, _agg_event, aevs, histVars>>

\* Lines 124-125
FirstSeen(t) ==
    /\ th[t].pc = "first_seen"
    /\ recs' = [recs EXCEPT ![th[t].rec] = keep_first(@, th[t].e, NoClock)]
    /\ Goto(t, "last_seen")
    /\ UNCHANGED <<_events, _agg, _agg_event, aevs, histVars>>

\* Lines 127-129
LastSeen(t) ==
    /\ th[t].pc = "last_seen"
    /\ recs' = [recs EXCEPT ![th[t].rec] = keep_last(@, th[t].e, NoClock)]
    /\ Goto(t, "get_view")
    /\ UNCHANGED <<_events, _agg, _agg_event, aevs, histVars>>

\* Line 132: self._agg_event[fp] raises KeyError when the creating thread has
\* not reached line 117 yet; the exception ends the handler.
GetView(t) ==
    /\ th[t].pc = "get_view"
    /\ IF _agg_event[fp_of(th[t].e)] = 0
       THEN Return(t)
       ELSE th' = [th EXCEPT ![t].pc = "sync_view",
                             ![t].agg_e = _agg_event[fp_of(th[t].e)]]
    /\ UNCHANGED <<storeVars, histVars>>

\* Lines 133-139
SyncView(t) ==
    /\ th[t].pc = "sync_view"
    /\ aevs' = [aevs EXCEPT ![th[t].agg_e] = sync_view(@, recs[th[t].rec])]
    /\ Return(t)
    /\ UNCHANGED <<_events, _agg, recs, _agg_event, histVars>>

\* --------------------------------- list_events, recent_events and get_event
\* Event.aggregate is None on an event that is not an aggregate view.
NoAggregate == [count |-> 0, first_seen |-> BadTs, last_seen |-> BadTs]
as_item(e) ==
    [event_id |-> e.event_id, ts |-> e.ts, fingerprint |-> e.fingerprint,
     title |-> e.title, aggregate |-> NoAggregate]
NoItem == as_item(NoEvent)

Limits == {0, 1, 2}

\* _events.values() comes in the order the keys were first inserted, which
\* the function _events does not keep: every order of the stored events
\* without fingerprint is one the dict can have.
Unaggregated(S) ==
    {i \in EventIds : S.events[i] # NoEvent /\ fp_of(S.events[i]) = <<>>}
Orders(ids) ==
    {q \in [1..Cardinality(ids) -> ids] :
        \A i, j \in 1..Cardinality(ids) : i # j => q[i] # q[j]}

\* Lines 145-150
list_items_views_only(S, ord) == S.aevs

list_items(S, ord) == S.aevs \o [i \in 1..Len(ord) |-> as_item(S.events[ord[i]])]

\* Lines 152, 158: the key of one item; now is the clock when it is computed
sort_key(x, now) ==
    _parse_ts(IF x.aggregate # NoAggregate THEN x.aggregate.last_seen ELSE x.ts, now)

\* list.sort computes the key of every item once, in list order.
keyed(items, nows) ==
    [i \in 1..Len(items) |-> [key |-> sort_key(items[i], nows[i]), item |-> items[i]]]
KeyClocks(n) ==
    {c \in [1..n -> NowVals] : \A i, j \in 1..n : i < j => c[i] <= c[j]}

\* list.sort(reverse=True) is stable: items of equal key keep their order.
RECURSIVE insert_asc(_, _)
insert_asc(q, x) ==
    IF q = <<>> THEN <<x>>
    ELSE IF Head(q).key <= x.key THEN <<Head(q)>> \o insert_asc(Tail(q), x)
    ELSE <<x>> \o q

RECURSIVE insert_desc(_, _)
insert_desc(q, x) ==
    IF q = <<>> THEN <<x>>
    ELSE IF Head(q).key >= x.key THEN <<Head(q)>> \o insert_desc(Tail(q), x)
    ELSE <<x>> \o q

RECURSIVE sort_desc(_)
sort_desc(q) ==
    IF q = <<>> THEN <<>>
    ELSE insert_desc(sort_desc(SubSeq(q, 1, Len(q) - 1)), q[Len(q)])

sorted_items(items, nows) ==
    LET k == sort_desc(keyed(items, nows)) IN [i \in 1..Len(k) |-> k[i].item]

\* items[:limit] for limit >= 0
take(q, limit) == SubSeq(q, 1, Min(limit, Len(q)))

\* Lines 143-153
list_events(S, limit, ord, nows) == take(sorted_items(list_items(S, ord), nows), limit)

\* Lines 155-159
recent_events(S, limit, nows) == take(sorted_items(S.aevs, nows), limit)

\* Lines 161-171; <<>> is None
get_event(S, id) ==
    LET views == {a \in 1..Len(S.aevs) : S.aevs[a].event_id = id}
    IN IF S.events[id] # NoEvent THEN <<as_item(S.events[id])>>
       ELSE IF views # {} THEN <<S.aevs[First(views)]>>
       ELSE <<>>

\* Lines 47-171: the attributes an InMemoryStore object has; it defines no
\* add, append, put_event or events
StoreAttrs == {"_events", "_agg", "_agg_event", "ingest_event", "upsert_events",
               "list_events", "recent_events", "get_event"}

hasattr(name) == name \in StoreAttrs

\* The dicts passed to ingest_event: event_id and timestamp present or not
\* ("" and 0 stand for a missing key)
RawEvents == [event_id : EventIds \cup {""}, timestamp : 0..MaxTs]

\* Line 64: f"evt_{uuid.uuid4().hex[:12]}"
NEW_ID == "evt_4b1f0c2d9a7e"

\* Lines 58-86: the dict after lines 64-68, the write primitive the hasattr
\* chain picks ("" for none), and whether line 84 raised instead of returning
ingest_event(event, now) ==
    LET event_id == IF event.event_id # "" THEN event.event_id ELSE NEW_ID
        filled == [event_id |-> event_id,
                   timestamp |-> IF event.timestamp = 0 THEN now ELSE event.timestamp]
        via == IF hasattr("add") THEN "add"
               ELSE IF hasattr("append") THEN "append"
               ELSE IF hasattr("put_event") THEN "put_event"
               ELSE IF hasattr("events") THEN "events"
               ELSE ""
    IN [event |-> filled, via |-> via, raised |-> via = ""]

NoRead == [op |-> "none", limit |-> 0, id |-> "", out |-> <<>>,
           ts |-> 0, via |-> "", raised |-> FALSE]

ListEvents ==
    /\ Quiescent
    /\ rd = NoRead
    /\ \E limit \in Limits, ord \in Orders(Unaggregated(TheStore)) :
         \E nows \in KeyClocks(Len(list_items(TheStore, ord))) :
            rd' = [NoRead EXCEPT !.op = "list", !.limit = limit,
                                 !.out = list_events(TheStore, limit, ord, nows)]
    /\ UNCHANGED <<storeVars, th, histVars>>

RecentEvents ==
    /\ Quiescent
    /\ rd = NoRead
    /\ \E limit \in Limits, nows \in KeyClocks(Len(aevs)) :
         rd' = [NoRead EXCEPT !.op = "recent", !.limit = limit,
                              !.out = recent_events(TheStore, limit, nows)]
    /\ UNCHANGED <<storeVars, th, histVars>>

GetEvent ==
    /\ Quiescent
    /\ rd = NoRead
    /\ \E id \in EventIds :
         rd' = [NoRead EXCEPT !.op = "get", !.id = id, !.out = get_event(TheStore, id)]
    /\ UNCHANGED <<storeVars, th, histVars>>

\* ingest_event(event): it touches none of _events, _agg, _agg_event
IngestEvent ==
    /\ Quiescent
    /\ rd = NoRead
    /\ \E event \in RawEvents, now \in 1..MaxTs :
         LET r == ingest_event(event, now)
         IN rd' = [NoRead EXCEPT !.op = "ingest", !.id = r.event.event_id,
                                 !.ts = r.event.timestamp, !.via = r.via,
                                 !.raised = r.raised]
    /\ UNCHANGED <<storeVars, th, histVars>>

ReadInit == rd = NoRead

StoreInit ==
    /\ _events = [i \in EventIds |-> NoEvent]
    /\ _agg = [fp \in Fingerprints |-> 0]
    /\ recs = <<>>
    /\ _agg_event = [fp \in Fingerprints |-> 0]
    /\ aevs = <<>>
    /\ th = [t \in Threads |-> IdleThread]
    /\ nUp = 0
    /\ applied = [fp \in Fingerprints |-> 0]
    /\ incr = [fp \in Fingerprints |-> IncrOff]
    /\ seen = [fp \in Fingerprints |-> SeenOff]
    /\ lastUp = NoUp

\* ================================================ save_state, step by step
\* The two files save_state touches: STATE_PATH and STATE_PATH + ".tmp".
\* A file opened with mode "w" is empty until json.dump and the close of the
\* with block have written it out; read in between, it is no JSON document.
Partial == [kind |-> "partial"]

\* Line 131: open(tmp, "w")
open_in_place(fs) == [fs EXCEPT !.state = Partial]

open_tmp(fs) == [fs EXCEPT !.tmp = Partial]

\* Line 132 and the end of the with block: the document is written out
dump_tmp(fs, s) == [fs EXCEPT !.tmp = Json(s.inode, s.offset)]

\* Line 133: os.replace(tmp, STATE_PATH)
replace_tmp(fs) == [state |-> fs.tmp, tmp |-> Absent]

TheFiles == [state |-> bookmark, tmp |-> tmpfile]

SavedStates == [inode : Inodes, offset : 0..MaxLegacyOffset]

NoSave == [pc |-> "idle", s |-> NoState, prev |-> Absent, how |-> "none"]

\* save_state(st) is entered.
SaveCall ==
    /\ sv.pc = "idle"
    /\ \E s \in SavedStates :
         sv' = [pc |-> "open", s |-> s, prev |-> bookmark, how |-> "none"]
    /\ UNCHANGED <<bookmark, tmpfile>>

\* Lines 129-131: makedirs and open; either may raise.
SaveOpen ==
    /\ sv.pc = "open"
    /\ \/ /\ bookmark' = open_tmp(TheFiles).state
          /\ tmpfile' = open_tmp(TheFiles).tmp
          /\ sv' = [sv EXCEPT !.pc = "dump"]
       \/ /\ sv' = [sv EXCEPT !.pc = "idle", !.how = "open"]
          /\ UNCHANGED <<bookmark, tmpfile>>

\* Line 132: json.dump and the close; a failed write leaves the file cut short.
SaveDump ==
    /\ sv.pc = "dump"
    /\ \/ /\ bookmark' = dump_tmp(TheFiles, sv.s).state
          /\ tmpfile' = dump_tmp(TheFiles, sv.s).tmp
          /\ sv' = [sv EXCEPT !.pc = "replace"]
       \/ /\ sv' = [sv EXCEPT !.pc = "idle", !.how = "write"]
          /\ UNCHANGED <<bookmark, tmpfile>>

\* Line 133: os.replace, atomic; it may raise.
SaveReplace ==
    /\ sv.pc = "replace"
    /\ \/ /\ bookmark' = replace_tmp(TheFiles).state
          /\ tmpfile' = replace_tmp(TheFiles).tmp
          /\ sv' = [sv EXCEPT !.pc = "idle", !.how = "ok"]
       \/ /\ sv' = [sv EXCEPT !.pc = "idle", !.how = "rename"]
          /\ UNCHANGED <<bookmark, tmpfile>>

\* The process is killed inside save_state.
SaveKill ==
    /\ sv.pc # "idle"
    /\ sv' = [sv EXCEPT !.pc = "idle", !.how = "killed"]
    /\ UNCHANGED <<bookmark, tmpfile>>

SaveInit ==
    /\ tmpfile = Absent
    /\ sv = NoSave

\* ============================================ post_with_retry, per attempt
\* What one POST attempt meets: the status class of the final response, or no
\* response at all.
Responses == {"2xx", "3xx", "4xx", "5xx", "neterr", "timeout"}

\* Lines 251-258: requests.post raises on a network error or a timeout;
\* raise_for_status raises for a status of 400..599 and for no other.
post_json_raises(resp) == resp \in {"4xx", "5xx", "neterr", "timeout"}

NoCall == [pc |-> "idle", resp |-> <<>>, i |-> 0, waits |-> <<>>, result |-> FALSE]

\* post_with_retry(url, payload) is entered; resp[k] is what attempt k meets.
RetryCall ==
    /\ rq.pc = "idle"
    /\ \E resp \in [1..RETRY_MAX -> Responses] :
         rq' = [pc |-> "loop", resp |-> resp, i |-> 0, waits |-> <<>>,
                result |-> FALSE]

\* Lines 261-266: one pass of "for i in range(RETRY_MAX)".
RetryAttempt ==
    /\ rq.pc = "loop"
    /\ rq.i < RETRY_MAX
    /\ IF post_json_raises(rq.resp[rq.i + 1])
       THEN rq' = [rq EXCEPT !.i = rq.i + 1,
                             !.waits = Append(rq.waits, RETRY_BACKOFF * (rq.i + 1))]
       ELSE rq' = [rq EXCEPT !.i = rq.i + 1, !.pc = "returned", !.result = TRUE]

\* Line 267: the loop is exhausted, return False.
RetryGiveUp ==
    /\ rq.pc = "loop"
    /\ rq.i = RETRY_MAX
    /\ rq' = [rq EXCEPT !.pc = "returned", !.result = FALSE]

RetryInit == rq = NoCall

\* ============================================================ Desensitizer
\* keep_private_ranges is at its default, False: every matched value is mapped.
Secrets == {"k1", "k2"}
Raws == {"8.8.8.8", "hunter2"}

\* Lines 62-91: the prefix is fixed by the pattern that matched the value.
kind_of(raw) == IF raw = "8.8.8.8" THEN "IP" ELSE "SECRET"

\* Lines 44-49: the first 10 hex digits of HMAC-SHA256(key, s), kept as the
\* pair it is computed from; two digests are equal when key and text are.
_h(key, raw) == <<key, raw>>

\* Line 55: f"<{prefix}:{self._h(raw)}>"
token_of(prefix, key, raw) == [prefix |-> prefix, h |-> _h(key, raw)]

NoTok == [prefix |-> "", h |-> <<"", "">>]
EmptyMap == [r \in Raws |-> NoTok]

MapAbsent == [kind |-> "absent"]
MapCorrupt == [kind |-> "corrupt"]
MapJson(m, rv) == [kind |-> "json", map |-> m, rev |-> rv]

\* Lines 103-111
_load_map_crossed(file) ==
    IF file.kind = "json"
    THEN [map |-> [r \in Raws |-> file.map[CHOOSE q \in Raws : q # r]],
          rev |-> file.rev]
    ELSE [map |-> EmptyMap, rev |-> {}]

_load_map(file) ==
    IF file.kind = "json" THEN [map |-> file.map, rev |-> file.rev]
    ELSE [map |-> EmptyMap, rev |-> {}]

\* Lines 113-124. makedirs is called before the try; open(path, "w")
\* truncates the file in place, so a failed write leaves it cut short.
SaveMapOutcomes == {"ok", "mkdir", "open", "write"}

_save_map(file, m, rv, how) ==
    IF how = "ok" THEN MapJson(m, rv)
    ELSE IF how = "write" THEN MapCorrupt
    ELSE file

_save_map_raises(how) == how = "mkdir"

\* Lines 56-58: the new entry of the forward and of the reverse mapping
map_only(m, raw, token) == [r \in Raws |-> IF r = raw THEN token ELSE NoTok]

map_put(m, raw, token) == [m EXCEPT ![raw] = token]

rev_put(rv, reversible, raw, token) ==
    IF reversible
    THEN {e \in rv : e.token # token} \cup {[token |-> token, raw |-> raw]}
    ELSE rv

NoDes == [up |-> FALSE, secret_key |-> "", reversible |-> FALSE,
          _map |-> EmptyMap, _rev |-> {}]

NoLine == [op |-> "none", raw |-> "", token |-> NoTok, how |-> "ok",
           raised |-> FALSE, map0 |-> EmptyMap, file0 |-> MapAbsent,
           again |-> FALSE]

\* Lines 22-26: Desensitizer(cfg), as build_desensitizer and _build_des call it
Construct ==
    /\ ~des.up
    /\ \E key \in Secrets, reversible \in BOOLEAN :
         des' = [up |-> TRUE, secret_key |-> key, reversible |-> reversible,
                 _map |-> _load_map(mapfile).map, _rev |-> _load_map(mapfile).rev]
    /\ dl' = [NoLine EXCEPT !.op = "init"]
    /\ UNCHANGED <<mapfile, issued>>

\* Lines 31-39 and 51-60: desensitize_line on a line that holds the value raw
DesensitizeLine ==
    /\ des.up
    /\ \E raw \in Raws :
         IF des._map[raw] # NoTok
         THEN /\ dl' = [op |-> "hit", raw |-> raw, token |-> des._map[raw],
                        how |-> "ok", raised |-> FALSE, map0 |-> des._map,
                        file0 |-> mapfile,
                        again |-> issued[des.secret_key, raw] # NoTok]
              /\ issued' = IF issued[des.secret_key, raw] = NoTok
                            THEN [issued EXCEPT ![des.secret_key, raw] = des._map[raw]]
                            ELSE issued
              /\ UNCHANGED <<des, mapfile>>
         ELSE \E how \in SaveMapOutcomes :
                LET token == token_of(kind_of(raw), des.secret_key, raw)
                    m == map_put(des._map, raw, token)
                    rv == rev_put(des._rev, des.reversible, raw, token)
                IN /\ des' = [des EXCEPT !._map = m, !._rev = rv]
                   /\ mapfile' = _save_map(mapfile, m, rv, how)
                   /\ dl' = [op |-> "new", raw |-> raw,
                             token |-> IF _save_map_raises(how) THEN NoTok ELSE token,
                             how |-> how, raised |-> _save_map_raises(how),
                             map0 |-> des._map, file0 |-> mapfile,
                             again |-> issued[des.secret_key, raw] # NoTok]
                   /\ issued' = IF issued[des.secret_key, raw] = NoTok
                                    /\ ~_save_map_raises(how)
                                 THEN [issued EXCEPT ![des.secret_key, raw] = token]
                                 ELSE issued

\* The process that holds the instance ends.
Exit ==
    /\ des.up
    /\ des' = NoDes
    /\ dl' = NoLine
    /\ UNCHANGED <<mapfile, issued>>

\* The mapping file is removed between two runs.
RemoveFile ==
    /\ ~des.up
    /\ mapfile # MapAbsent
    /\ mapfile' = MapAbsent
    /\ UNCHANGED <<des, dl, issued>>

DesInit ==
    /\ mapfile = MapAbsent
    /\ des = NoDes
    /\ dl = NoLine
    /\ issued = [k \in Secrets, r \in Raws |-> NoTok]

\* ========================================================= syslog messages
\* A message text is kept as the parts the patterns of the code tell apart,
\* not as characters. A port name, as it stands in the text:
Ports == {"Gi1/0/48", "Gi2/0/48", "Bridge-Aggregation1"}

\* The port names made of characters of [\w/] alone (no "-").
WordPorts == {"Gi1/0/48", "Gi2/0/48"}

\* Python's order of str, code point by code point: "B" < "G", "1" < "2".
PortRank ==
    [p \in Ports |-> IF p = "Bridge-Aggregation1" THEN 1
                     ELSE IF p = "Gi1/0/48" THEN 2 ELSE 3]

str_le(a, b) == PortRank[a] <= PortRank[b]

\* A MAC address in the text: its twelve hex digits and the way it is written,
\* 5489-98b3-2111 ("dash") or 5489.98B3.2111 ("dots_upper").
MacHex == {"548998b32111", "0000aaaa0001"}
MacStyles == {"dash", "dots_upper"}
Macs == [hex : MacHex, style : MacStyles]

Hosts == {"SW01", "10.0.0.5"}

\* Desensitizer.desensitize_line on a host name: an IPv4 address becomes its
\* token, other names have nothing to mask.
\* The token the Desensitizer of the process gives the one IPv4 address of
\* the texts here, as the text it is; a token holds nothing to replace.
IP_TOKEN == "<IP:6f1c2a9be03d>"
mask_host(h) == IF h = "10.0.0.5" THEN IP_TOKEN ELSE h

\* ---------------------------------------------- app.ingest.syslog.parse_syslog
\* Lines 28-33
_norm_mac(mac) == [hex |-> mac.hex, style |-> "dash"]

\* Lines 35-38
_sort_ports(a, b) == IF str_le(a, b) THEN <<a, b>> ELSE <<b, a>>

\* The text after the module: a MAC-flapping sentence, or something else.
FlapBodies == [k : {"flap"}, mac : Macs, p1 : Ports, p2 : Ports]
OtherBodies == {[k |-> "text", words |-> "link down"]}
Bodies == FlapBodies \cup OtherBodies

\* A message as a device sends it: "%Mon d hh:mm:ss:ms yyyy" ("h3c"),
\* "%Mon d hh:mm:ss yyyy" ("pct") or "Mon d hh:mm:ss yyyy" ("plain"), then
\* vendor, module, ": " or " " and the body. md stands for month and day, tm
\* for time, milliseconds and year.
Stamps == 1..2
Msgs ==
    [form : {"device"}, hdr : {"h3c", "pct", "plain"}, md : Stamps, tm : Stamps,
     vendor : {"H3C", "HUAWEI"}, module : {"L2MGNT/5/MAC_FLAPPING"},
     colon : BOOLEAN, body : Bodies]

\* Lines 7-17 and 52: _H3C_HDR.match
_H3C_HDR(m) ==
    m.form = "device" /\ m.hdr = "h3c" /\ m.vendor = "H3C" /\ m.colon

\* Lines 21-26 and 61: _MAC_FLAP.match(body); both ports must be [\w/]+
_MAC_FLAP(body) ==
    body.k = "flap" /\ body.p1 \in WordPorts /\ body.p2 \in WordPorts

NoParse == [category |-> "", title |-> <<>>, fingerprint |-> <<>>]

\* Lines 40-100. A fingerprint is the tuple of the parts joined by "|".
parse_syslog(m) ==
    IF ~_H3C_HDR(m) THEN NoParse
    ELSE IF _MAC_FLAP(m.body)
    THEN LET mac == _norm_mac(m.body.mac)
             p == _sort_ports(m.body.p1, m.body.p2)
         IN [category |-> "L2/MAC_FLAPPING",
             title |-> <<"MAC_FLAPPING", mac, p[1], p[2]>>,
             fingerprint |-> <<"syslog", "MAC_FLAPPING", mac, p[1], p[2]>>]
    ELSE [category |-> "H3C/L2MGNT",
          title |-> <<m.module, "syslog:", m.body>>,
          fingerprint |-> <<"syslog", m.module, m.body>>]

\* ------------------------------------------------- app.main.ingest_syslog
\* Lines 345-349: the two re.sub calls. The first removes the whole H3C
\* header; the second replaces month and day alone.
_fingerprint_fallback(m) ==
    IF m.form # "device" THEN m
    ELSE IF m.hdr = "h3c" /\ m.vendor = "H3C"
    THEN [m EXCEPT !.hdr = "H3C ", !.md = 0, !.tm = 0]
    ELSE IF m.hdr \in {"h3c", "pct"}
    THEN [m EXCEPT !.hdr = "%MON DAY ", !.md = 0]
    ELSE m

NoFp == <<>>

\* Lines 484-488: payload.get("fingerprint") or parsed.get("fingerprint") or
\* the fallback
fp_raw(payload, parsed, host, program, msg) ==
    IF payload.fingerprint # NoFp THEN payload.fingerprint
    ELSE IF parsed.fingerprint # NoFp THEN parsed.fingerprint
    ELSE <<"syslog", host, program, _fingerprint_fallback(msg)>>

fp_source(payload, parsed) ==
    IF payload.fingerprint # NoFp THEN "payload"
    ELSE IF parsed.fingerprint # NoFp THEN "parsed"
    ELSE "fallback"

\* Lines 457-526: the Event the handler builds and upserts
ingest_syslog(payload) ==
    LET host == mask_host(payload.host)
        parsed == parse_syslog(payload.msg)
    IN [fingerprint |-> fp_raw(payload, parsed, host, payload.program, payload.msg),
        source |-> fp_source(payload, parsed),
        category |-> IF payload.category # "" THEN payload.category
                     ELSE IF parsed.category # "" THEN parsed.category
                     ELSE "SYSLOG",
        host |-> host,
        parsed |-> parsed]

NoLineRead == [std |-> FALSE, segs |-> <<>>]
NoOut == [route |-> "none"]

NoReq == [host |-> "", program |-> "", msg |-> [form |-> "none"],
          fingerprint |-> NoFp, category |-> "", title |-> <<>>]
NoEv == [fingerprint |-> NoFp, source |-> "", category |-> "", host |-> "",
         parsed |-> NoParse]

\* A client posts a device message as it is, without fingerprint.
IngestDirect ==
    /\ api.req = NoReq
    /\ tl.out = NoOut
    /\ \E h \in Hosts, m \in Msgs :
         LET payload == [NoReq EXCEPT !.host = h, !.program = "syslog", !.msg = m]
         IN api' = [req |-> payload, ev |-> ingest_syslog(payload)]
    /\ UNCHANGED tl

\* ------------------------------------------------------ tail_ingest lines
\* A line of the log file is what stands before the message, "Mon d hh:mm:ss "
\* (std) or something LINE_RE does not match, and then segments that ": "
\* joins: "2025 SW01", a module such as "%%IFNET/5/LINK_UPDOWN", a sentence.
MaxSegs == 4
SHELL == "%%10SHELL/6/SHELL_CMD"
FLAPPING == "%%L2MGNT/5/MAC_FLAPPING"
UPDOWN == "%%IFNET/5/LINK_UPDOWN"

HostSegs == [s : {"host"}, host : Hosts]
ModSegs == [s : {"mod"}, name : {SHELL, FLAPPING, UPDOWN}]
FlapSegs ==
    [s : {"flap"}, mac : {[hex |-> "548998b32111", style |-> "dash"]},
     p1 : WordPorts, p2 : WordPorts, dot : BOOLEAN]
LinkSegs == [s : {"link"}, intf : {"GigabitEthernet1/0/1"}, state : {"down", "up"}]
TextSegs == {[s |-> "text", words |-> "session closed"]}
InnerSegs ==
    ModSegs \cup {f \in FlapSegs : f.p1 # f.p2} \cup LinkSegs \cup TextSegs
Segs == HostSegs \cup InnerSegs

SegSeqs ==
    UNION {{q \in [1..n -> Segs] : \A i \in 2..n : q[i] \in InnerSegs} :
             n \in 1..MaxSegs}

Lines == [std : BOOLEAN, segs : SegSeqs]

Dotted == [p \in WordPorts |-> IF p = "Gi1/0/48" THEN "Gi1/0/48." ELSE "Gi2/0/48."]

\* The last blank-separated word of a segment: left.split()[-1]
last_word(seg) ==
    IF seg.s = "host" THEN seg.host
    ELSE IF seg.s = "mod" THEN seg.name
    ELSE IF seg.s = "flap" THEN (IF seg.dot THEN Dotted[seg.p2] ELSE seg.p2)
    ELSE IF seg.s = "link" THEN seg.state
    ELSE "closed"

\* Lines 164-187: host, program and message of a line
parse_syslog_line(line) ==
    IF ~line.std
    THEN [host |-> "unknown", program |-> "rsyslog", msg |-> line.segs]
    ELSE IF Len(line.segs) > 1
    THEN [host |-> last_word(line.segs[1]), program |-> "syslog",
          msg |-> Tail(line.segs)]
    ELSE [host |-> "unknown", program |-> "syslog", msg |-> line.segs]

\* Lines 189-196: mask_text; of the texts here only an IPv4 host name holds
\* something the Desensitizer replaces.
mask_seg(seg) == IF seg.s = "host" THEN [seg EXCEPT !.host = mask_host(@)] ELSE seg
mask_msg(msg) == [i \in 1..Len(msg) |-> mask_seg(msg[i])]
mask_word(w) == IF w \in Hosts THEN mask_host(w) ELSE w

\* Lines 199-201: the first 16 hex digits of SHA-1, kept as the text hashed.
stable_fingerprint(parts) == <<"sha1", parts>>

\* re.search with a lazy ".*?": the leftmost marker, then the first sentence
\* after it.
Places(msg, ok(_)) == {i \in 1..Len(msg) : ok(msg[i])}
IsShell(seg) == seg.s = "mod" /\ seg.name = SHELL
IsFlapMark(seg) == seg.s = "mod" /\ seg.name = FLAPPING
IsUpdown(seg) == seg.s = "mod" /\ seg.name = UPDOWN
IsFlap(seg) == seg.s = "flap"
IsLink(seg) == seg.s = "link"

After(msg, mark(_), what(_)) ==
    {j \in Places(msg, what) : \E i \in Places(msg, mark) : i < j}

\* Lines 58-61, 226-234: MAC_FLAP_RE takes the ports as \S+, in the order of
\* the text, the second one with the "." or ":" that follows it.
flap_ports(msg, j) ==
    <<msg[j].p1, [port |-> msg[j].p2, dot |-> msg[j].dot, colon |-> j < Len(msg)]>>

NoClass == [category |-> "", title |-> <<>>, fingerprint |-> NoFp]

\* Lines 221-245
classify_link_first(msg, host) ==
    LET flaps == After(msg, IsFlapMark, IsFlap)
        links == After(msg, IsUpdown, IsLink)
    IN IF links # {}
       THEN LET l == msg[First(links)]
            IN [category |-> "SWITCH_LINK",
                title |-> <<host, l.intf, "link", l.state>>,
                fingerprint |-> stable_fingerprint(<<"LINK", host, l.intf, l.state>>)]
       ELSE IF flaps # {}
       THEN LET j == First(flaps)
                p == flap_ports(msg, j)
            IN [category |-> "L2/MAC_FLAPPING",
                title |-> <<"MAC_FLAPPING", msg[j].mac, p[1], p[2]>>,
                fingerprint |-> stable_fingerprint(
                                  <<"MAC_FLAPPING", msg[j].mac, p[1], p[2]>>)]
       ELSE NoClass

classify_as_event(msg, host) ==
    LET flaps == After(msg, IsFlapMark, IsFlap)
        links == After(msg, IsUpdown, IsLink)
    IN IF Places(msg, IsShell) # {} THEN NoClass
       ELSE IF flaps # {}
       THEN LET j == First(flaps)
                p == flap_ports(msg, j)
            IN [category |-> "L2/MAC_FLAPPING",
                title |-> <<"MAC_FLAPPING", msg[j].mac, p[1], p[2]>>,
                fingerprint |-> stable_fingerprint(
                                  <<"MAC_FLAPPING", msg[j].mac, p[1], p[2]>>)]
       ELSE IF links # {}
       THEN LET l == msg[First(links)]
            IN [category |-> "SWITCH_LINK",
                title |-> <<host, l.intf, "link", l.state>>,
                fingerprint |-> stable_fingerprint(<<"LINK", host, l.intf, l.state>>)]
       ELSE NoClass

\* Lines 207-219: none of the hint words occurs in the texts above.
detect_source(host, msg) == "syslog"

\* Lines 358-409: what one pass of the loop posts for the line it has read,
\* to EVENT_API_URL ("event") or to EVIDENCE_API_URL ("evidence")
evidence_of(line) ==
    LET p == parse_syslog_line(line)
        host == mask_word(p.host)
        msg == mask_msg(p.msg)
    IN [route |-> "evidence",
        payload |-> [NoReq EXCEPT !.host = host, !.program = p.program,
                       !.msg = [form |-> "tail", segs |-> msg],
                       !.fingerprint = stable_fingerprint(
                           <<host, detect_source(host, msg), msg>>)]]

tail_forward_always_evidence(line) == evidence_of(line)

tail_forward(line) ==
    LET p == parse_syslog_line(line)
        host == mask_word(p.host)
        msg == mask_msg(p.msg)
        ev == classify_as_event(msg, host)
    IN IF ev # NoClass
       THEN [route |-> "event",
             payload |-> [host |-> host, program |-> p.program,
                          msg |-> [form |-> "tail", segs |-> msg],
                          category |-> ev.category, title |-> ev.title,
                          fingerprint |-> ev.fingerprint]]
       ELSE evidence_of(line)

\* The loop reads a line and posts it.
TailLine ==
    /\ tl.out = NoOut
    /\ api.req = NoReq
    /\ \E line \in Lines : tl' = [line |-> line, out |-> tail_forward(line)]
    /\ UNCHANGED api

\* The request tail_ingest sent to /api/ingest/syslog is handled.
IngestForwarded ==
    /\ tl.out.route = "event"
    /\ api.req = NoReq
    /\ api' = [req |-> tl.out.payload, ev |-> ingest_syslog(tl.out.payload)]
    /\ UNCHANGED tl

SysInit ==
    /\ tl = [line |-> NoLineRead, out |-> NoOut]
    /\ api = [req |-> NoReq, ev |-> NoEv]

\* ------------------------------------------- one pass of the tail loop
\* Lines 31 and 37: RAW_TAP_ENABLE and ENABLE_DESENSITIZE, read from the
\* environment when the module is loaded
Configs == [desensitize : BOOLEAN, tap : BOOLEAN]
DefaultConfig == [desensitize |-> TRUE, tap |-> FALSE]

\* The lines of up to MaxSegs - 1 segments, the blank line among them.
LoopLines ==
    [std : BOOLEAN,
     segs : UNION {{q \in [1..n -> Segs] : \A i \in 2..n : q[i] \in InnerSegs} :
                     n \in 0..(MaxSegs - 1)}]

\* What the file system does to the pass: nothing, os.makedirs of the tap
\* directory raises, the tap file cannot be written, os.makedirs of the
\* mapping directory raises.
FsOutcomes == {"ok", "tap_mkdir", "tap_write", "map_mkdir"}

TokenKinds == {"IP", "MAC", "SECRET"}

\* A dict of counts; a kind that is no key counts 0.
NoStats == [k \in TokenKinds |-> 0]

\* The replacements re.sub makes in a text: one for each IPv4 address.
subs_word(w) == IF mask_host(w) # w THEN 1 ELSE 0

RECURSIVE subs_msg(_)
subs_msg(msg) ==
    IF msg = <<>> THEN 0
    ELSE (IF msg[1].s = "host" THEN subs_word(msg[1].host) ELSE 0)
         + subs_msg(Tail(msg))

substitutions(n) == [k \in TokenKinds |-> IF k = "IP" THEN n ELSE 0]

\* desensitizer.py lines 31-39: meta is created empty and returned as it is,
\* whatever number n of replacements was made.
desensitize_meta(n) == NoStats

\* Lines 189-197: the text and the stats, for a host name and for a message
mask_text_off(on, w) == [text |-> w, stats |-> NoStats]

mask_text(on, w) ==
    IF ~on THEN [text |-> w, stats |-> NoStats]
    ELSE [text |-> mask_word(w), stats |-> desensitize_meta(subs_word(w))]

mask_text_msg(on, msg) ==
    IF ~on THEN [text |-> msg, stats |-> NoStats]
    ELSE [text |-> mask_msg(msg), stats |-> desensitize_meta(subs_msg(msg))]

\* Lines 368-371
sum_stats(a, b) == [k \in TokenKinds |-> a[k] + b[k]]

NoPayload ==
    [host |-> "", program |-> "", msg |-> <<>>, category |-> "", title |-> <<>>,
     fingerprint |-> NoFp, source |-> "", masked |-> FALSE, mask_stats |-> NoStats]

\* Lines 375-409: the one post_with_retry call of a pass; a key the payload
\* does not have is "" or <<>>.
post_both(host, program, msg, masked, mask_stats) ==
    LET ev == classify_as_event(msg, host)
        source == detect_source(host, msg)
        event == [url |-> "EVENT_API_URL",
                  payload |-> [NoPayload EXCEPT !.host = host, !.program = program,
                                 !.msg = msg, !.category = ev.category,
                                 !.title = ev.title, !.fingerprint = ev.fingerprint,
                                 !.masked = masked, !.mask_stats = mask_stats]]
        evidence == [url |-> "EVIDENCE_API_URL",
                     payload |-> [NoPayload EXCEPT !.host = host, !.program = program,
                                    !.msg = msg, !.source = source,
                                    !.fingerprint =
                                        stable_fingerprint(<<host, source, msg>>),
                                    !.masked = masked, !.mask_stats = mask_stats]]
    IN IF ev # NoClass THEN <<event, evidence>> ELSE <<evidence>>

post_of(host, program, msg, masked, mask_stats) ==
    LET ev == classify_as_event(msg, host)
        source == detect_source(host, msg)
    IN IF ev # NoClass
       THEN <<[url |-> "EVENT_API_URL",
               payload |-> [NoPayload EXCEPT !.host = host, !.program = program,
                              !.msg = msg, !.category = ev.category,
                              !.title = ev.title, !.fingerprint = ev.fingerprint,
                              !.masked = masked, !.mask_stats = mask_stats]]>>
       ELSE <<[url |-> "EVIDENCE_API_URL",
               payload |-> [NoPayload EXCEPT !.host = host, !.program = program,
                              !.msg = msg, !.source = source,
                              !.fingerprint =
                                  stable_fingerprint(<<host, source, msg>>),
                              !.masked = masked, !.mask_stats = mask_stats]]>>

\* Lines 356-409: what the pass writes to the tap file, whether an exception
\* left main before the forward, and the post_with_retry calls made.
loop_body(line, cfg, fs) ==
    LET tap_raised == cfg.tap /\ fs = "tap_mkdir"
        p == parse_syslog_line(line)
        h == mask_text(cfg.desensitize, p.host)
        m == mask_text_msg(cfg.desensitize, p.msg)
        map_raised == /\ cfg.desensitize
                      /\ fs = "map_mkdir"
                      /\ subs_word(p.host) + subs_msg(p.msg) > 0
        raised == tap_raised \/ map_raised
    IN [tapped |-> IF cfg.tap /\ fs \notin {"tap_mkdir", "tap_write"}
                   THEN <<line>> ELSE <<>>,
        raised |-> raised,
        calls |-> IF raised THEN <<>>
                  ELSE post_of(h.text, p.program, m.text, cfg.desensitize,
                               sum_stats(h.stats, m.stats))]

NoLoop == [at |-> "load", cfg |-> DefaultConfig, line |-> NoLineRead,
           tapped |-> <<>>, raised |-> FALSE, calls |-> <<>>]

\* The module is loaded with the environment's settings.
Configure ==
    /\ lp.at = "load"
    /\ \E cfg \in Configs : lp' = [lp EXCEPT !.at = "loop", !.cfg = cfg]

\* readline returned a line: the pass up to the return of post_with_retry.
LoopBody ==
    /\ lp.at = "loop"
    /\ \E line \in LoopLines, fs \in FsOutcomes :
         LET r == loop_body(line, lp.cfg, fs)
         IN lp' = [lp EXCEPT !.at = "posted", !.line = line, !.tapped = r.tapped,
                             !.raised = r.raised, !.calls = r.calls]

LoopInit == lp = NoLoop

\* ------------------------------------------ desensitize_line, whole texts
\* A text is a sequence of blank-separated parts. A part is a value, alone or
\* after "key=". A value is a raw string with the tokens wrapped around it,
\* innermost first: <<>> for the raw string itself, <<"IP">> for "<IP:h>"
\* with h the digest of the raw string, <<"SECRET", "SECRET">> for the
\* SECRET token of the text of a SECRET token.
MaxParts == 2

RawValues ==
    {[kind |-> "text", raw |-> "hunter2", wraps |-> <<>>],
     [kind |-> "ip", raw |-> "8.8.8.8", wraps |-> <<>>],
     [kind |-> "ip", raw |-> "10.0.0.5", wraps |-> <<>>],
     [kind |-> "mac", raw |-> "00:1a:2b:3c:4d:5e", wraps |-> <<>>]}

Keys == {"", "password"}

Parts == [key : Keys, val : RawValues]

Texts == UNION {[1..n -> Parts] : n \in 1..MaxParts}

\* Lines 93-98
_is_private_ip(ip) == ip = "10.0.0.5"

\* Lines 51-60: the token of a value and the mapping after the call; the
\* mapping is a set of entries [raw, token]
_map_value(map, val, prefix) ==
    LET hits == {e \in map : e.raw = val}
    IN IF hits # {}
       THEN [token |-> (CHOOSE e \in hits : TRUE).token, map |-> map]
       ELSE LET token == [val EXCEPT !.wraps = Append(@, prefix)]
            IN [token |-> token, map |-> map \cup {[raw |-> val, token |-> token]}]

\* What the pattern of a pass matches in a part: lines 69, 73 and 80-82. The
\* text of a token has no dotted quad and no colon-separated hex pairs;
\* (\S+) after "key=" takes whatever stands there.
matches(part, prefix, keep) ==
    IF prefix = "IP"
    THEN part.val.wraps = <<>> /\ part.val.kind = "ip"
         /\ ~(keep /\ _is_private_ip(part.val.raw))
    ELSE IF prefix = "MAC" THEN part.val.wraps = <<>> /\ part.val.kind = "mac"
    ELSE part.key # ""

\* Lines 62-91: re.sub of one pass over the text, left to right
RECURSIVE _mask(_, _, _, _)
_mask(text, map, prefix, keep) ==
    IF text = <<>> THEN [text |-> <<>>, map |-> map]
    ELSE LET part == Head(text)
             r == IF matches(part, prefix, keep)
                  THEN _map_value(map, part.val, prefix)
                  ELSE [token |-> part.val, map |-> map]
             rest == _mask(Tail(text), r.map, prefix, keep)
         IN [text |-> <<[part EXCEPT !.val = r.token]>> \o rest.text,
             map |-> rest.map]

\* Lines 31-39
desensitize_line(text, map, keep) ==
    LET ip == _mask(text, map, "IP", keep)
        mac == _mask(ip.text, ip.map, "MAC", keep)
    IN _mask(mac.text, mac.map, "SECRET", keep)

NoMask == [at |-> "new", keep |-> FALSE, text |-> <<>>,
           once |-> [text |-> <<>>, map |-> {}],
           twice |-> [text |-> <<>>, map |-> {}]]

\* A Desensitizer with an empty mapping masks a text.
MaskOnce ==
    /\ mk.at = "new"
    /\ \E text \in Texts, keep \in BOOLEAN :
         mk' = [mk EXCEPT !.at = "once", !.keep = keep, !.text = text,
                          !.once = desensitize_line(text, {}, keep)]

\* The same Desensitizer masks the text it returned.
MaskAgain ==
    /\ mk.at = "once"
    /\ mk' = [mk EXCEPT !.at = "twice",
                        !.twice = desensitize_line(mk.once.text, mk.once.map, mk.keep)]

MaskInit == mk = NoMask

SideInit ==
    SaveInit /\ RetryInit /\ DesInit /\ SysInit /\ ReadInit /\ LoopInit /\ MaskInit

\* ----------------------------------------------------------- specifications
TailNext ==
    \/ (Startup /\ UNCHANGED <<storeVars, th, histVars, sideVars>>)
    \/ (Iter /\ UNCHANGED <<storeVars, th, histVars, sideVars>>)
    \/ (Idle /\ UNCHANGED <<storeVars, th, histVars, sideVars>>)
    \/ (Crash /\ UNCHANGED <<storeVars, th, histVars, sideVars>>)
    \/ (AppendLine /\ UNCHANGED <<storeVars, th, histVars, sideVars>>)
    \/ (Rotate /\ UNCHANGED <<storeVars, th, histVars, sideVars>>)
    \/ (Truncate /\ UNCHANGED <<storeVars, th, histVars, sideVars>>)

InitTail == TailInit /\ StoreInit /\ SideInit

SpecTail == InitTail /\ [][TailNext]_vars

\* Lines 346-350: "while True" keeps polling, so an iteration that can read a
\* line is taken and an empty read is followed by the next poll. Nothing
\* obliges the log writer, logrotate or a kill to happen.
SpecTailFair ==
    /\ InitTail
    /\ [][TailNext]_vars
    /\ WF_vars(Iter /\ UNCHANGED <<storeVars, th, histVars, sideVars>>)
    /\ WF_vars(Idle /\ UNCHANGED <<storeVars, th, histVars, sideVars>>)

InitStore == TailInit /\ bookmark = Absent /\ StoreInit /\ SideInit

StoreNext == Upsert /\ UNCHANGED <<tailVars, sideVars>>

SpecStore == InitStore /\ [][StoreNext]_vars

\* InMemoryStore with upserts and reads, one call at a time; the reads are
\* taken of stores that up to MaxListed events were passed to.
MaxListed == 2

nonStoreVars == <<tailVars, saveVars, retryVars, desVars, sysVars, loopVars,
                  maskVars>>

ListNext ==
    \/ (nUp < MaxListed /\ Upsert /\ rd' = NoRead /\ UNCHANGED nonStoreVars)
    \/ (ListEvents /\ UNCHANGED nonStoreVars)
    \/ (RecentEvents /\ UNCHANGED nonStoreVars)
    \/ (GetEvent /\ UNCHANGED nonStoreVars)
    \/ (IngestEvent /\ UNCHANGED nonStoreVars)

InitList == TailInit /\ bookmark = Absent /\ StoreInit /\ SideInit

SpecList == InitList /\ [][ListNext]_vars

ConcNext ==
    \/ \E t \in Threads : Call(t) /\ UNCHANGED <<tailVars, sideVars>>
    \/ \E t \in Threads : StoreEvent(t) /\ UNCHANGED <<tailVars, sideVars>>
    \/ \E t \in Threads : Lookup(t) /\ UNCHANGED <<tailVars, sideVars>>
    \/ \E t \in Threads : CreateRec(t) /\ UNCHANGED <<tailVars, sideVars>>
    \/ \E t \in Threads : CreateView(t) /\ UNCHANGED <<tailVars, sideVars>>
    \/ \E t \in Threads : GetRec(t) /\ UNCHANGED <<tailVars, sideVars>>
    \/ \E t \in Threads : ReadCount(t) /\ UNCHANGED <<tailVars, sideVars>>
    \/ \E t \in Threads : WriteCount(t) /\ UNCHANGED <<tailVars, sideVars>>
    \/ \E t \in Threads : FirstSeen(t) /\ UNCHANGED <<tailVars, sideVars>>
    \/ \E t \in Threads : LastSeen(t) /\ UNCHANGED <<tailVars, sideVars>>
    \/ \E t \in Threads : GetView(t) /\ UNCHANGED <<tailVars, sideVars>>
    \/ \E t \in Threads : SyncView(t) /\ UNCHANGED <<tailVars, sideVars>>

InitConc == TailInit /\ bookmark = Absent /\ StoreInit /\ SideInit

SpecConc == InitConc /\ [][ConcNext]_vars

tailVarsButBookmark == <<files, pathInode, pc, st, fInode, fpos, overdue,
                         boot, lastOp, lastIter>>

nonSaveVars == <<tailVarsButBookmark, storeVars, th, histVars, retryVars, desVars,
                 sysVars, readVars, loopVars,
                maskVars>>

SaveNext ==
    \/ (SaveCall /\ UNCHANGED nonSaveVars)
    \/ (SaveOpen /\ UNCHANGED nonSaveVars)
    \/ (SaveDump /\ UNCHANGED nonSaveVars)
    \/ (SaveReplace /\ UNCHANGED nonSaveVars)
    \/ (SaveKill /\ UNCHANGED nonSaveVars)

InitSave == TailInit /\ StoreInit /\ SideInit

SpecSave == InitSave /\ [][SaveNext]_vars

nonRetryVars == <<tailVars, storeVars, th, histVars, saveVars, desVars, sysVars,
                  readVars, loopVars,
                maskVars>>

RetryNext ==
    \/ (RetryCall /\ UNCHANGED nonRetryVars)
    \/ (RetryAttempt /\ UNCHANGED nonRetryVars)
    \/ (RetryGiveUp /\ UNCHANGED nonRetryVars)

InitRetry == TailInit /\ bookmark = Absent /\ StoreInit /\ SideInit

SpecRetry == InitRetry /\ [][RetryNext]_vars

nonDesVars == <<tailVars, storeVars, th, histVars, saveVars, retryVars, sysVars,
                readVars, loopVars,
                maskVars>>

DesNext ==
    \/ (Construct /\ UNCHANGED nonDesVars)
    \/ (DesensitizeLine /\ UNCHANGED nonDesVars)
    \/ (Exit /\ UNCHANGED nonDesVars)
    \/ (RemoveFile /\ UNCHANGED nonDesVars)

InitDes == TailInit /\ bookmark = Absent /\ StoreInit /\ SideInit

SpecDes == InitDes /\ [][DesNext]_vars

nonSysVars == <<tailVars, storeVars, th, histVars, saveVars, retryVars, desVars,
                readVars, loopVars,
                maskVars>>

SysNext ==
    \/ (IngestDirect /\ UNCHANGED nonSysVars)
    \/ (TailLine /\ UNCHANGED nonSysVars)
    \/ (IngestForwarded /\ UNCHANGED nonSysVars)

InitSys == TailInit /\ bookmark = Absent /\ StoreInit /\ SideInit

SpecSys == InitSys /\ [][SysNext]_vars

nonLoopVars == <<tailVars, storeVars, th, histVars, saveVars, retryVars, desVars,
                 sysVars, readVars, maskVars>>

LoopNext ==
    \/ (Configure /\ UNCHANGED nonLoopVars)
    \/ (LoopBody /\ UNCHANGED nonLoopVars)

InitLoop == TailInit /\ bookmark = Absent /\ StoreInit /\ SideInit

SpecLoop == InitLoop /\ [][LoopNext]_vars

nonMaskVars == <<tailVars, storeVars, th, histVars, saveVars, retryVars, desVars,
                 sysVars, readVars, loopVars>>

MaskNext ==
    \/ (MaskOnce /\ UNCHANGED nonMaskVars)
    \/ (MaskAgain /\ UNCHANGED nonMaskVars)

InitMask == TailInit /\ bookmark = Absent /\ StoreInit /\ SideInit

SpecMask == InitMask /\ [][MaskNext]_vars

\* ===================================================== claims: tail_ingest
AfterStartup == lastOp = "startup"
SameIdentity == boot.bm.kind = "json" /\ boot.bm.inode = boot.inode
OtherIdentity ==
    boot.bm.kind = "json" /\ boot.bm.inode # 0 /\ boot.bm.inode # boot.inode

\* C1: every line read in this run that lies wholly before the committed
\* offset st.offset has been forwarded successfully. Within a run st.offset
\* moves only to f.tell(), so the bytes between st.offset and the read position
\* are the lines read since then, each with post_with_retry False: the
\* committed offset stays before every such line exactly if an iteration that
\* commits starts with no such bytes behind the read position.
C1_CommittedOnlyForwarded ==
    lastOp = "iter_ok" => lastIter.fpos = lastIter.offset

\* C2: a loop iteration whose post_with_retry returned False leaves st.offset
\* and the bookmark file as they were before the iteration.
C2_FailureKeepsPosition ==
    lastOp = "iter_fail" =>
        /\ st.offset = lastIter.offset
        /\ bookmark = lastIter.bookmark

C2_Witness ==
    /\ lastOp = "iter_fail"
    /\ bookmark.kind = "json"
    /\ fpos > st.offset

\* C7 as stated: started with a bookmark of the current file's identity whose
\* offset does not exceed the file size, reading resumes at exactly the
\* persisted offset, whatever that offset is (0 included).
C7_ResumeAtPersisted ==
    (AfterStartup /\ SameIdentity /\ boot.bm.offset <= boot.size) =>
        /\ fpos = boot.bm.offset
        /\ st.offset = boot.bm.offset

\* C7 amended: the same for every persisted offset other than 0 (a persisted
\* offset of 0 starts at end-of-file).
C7_ResumeAtNonZero ==
    (AfterStartup /\ SameIdentity /\ boot.bm.offset <= boot.size
       /\ boot.bm.offset > 0) =>
        /\ fpos = boot.bm.offset
        /\ st.offset = boot.bm.offset

C7_Witness ==
    /\ AfterStartup
    /\ SameIdentity
    /\ boot.bm.offset > 0
    /\ boot.bm.offset < boot.size
    /\ fpos = boot.bm.offset

\* C8: started with a bookmark whose recorded (non-zero) identity differs from
\* the inode of the file at the log path, the loop is positioned at
\* end-of-file of the current file, not at the stale offset, and the bookmark
\* it keeps (in memory and on disk) has the new identity and that offset.
C8_RotationStartsAtEof ==
    (AfterStartup /\ OtherIdentity) =>
        /\ fpos = boot.size
        /\ st = [inode |-> boot.inode, offset |-> boot.size]
        /\ bookmark = Json(boot.inode, boot.size)

C8_Witness ==
    /\ AfterStartup
    /\ OtherIdentity
    /\ boot.bm.offset > 0
    /\ boot.bm.offset < boot.size
    /\ fpos = boot.size

\* C9: started with a persisted offset larger than the current file size, the
\* loop starts reading at offset 0 and holds 0 as its position.
C9_OversizeResetsToZero ==
    (AfterStartup /\ load_state(boot.bm).offset > boot.size) =>
        /\ fpos = 0
        /\ st.offset = 0

AfterIter == lastOp \in {"iter_ok", "iter_fail"}
SameFile(a, b) == a.kind = "json" /\ b.kind = "json" /\ a.inode = b.inode

\* C10 as stated: for a given file identity the offset never decreases, in
\* memory and in the bookmark file: a startup that finds the bookmark of the
\* current identity leaves a persisted offset and an in-memory offset not
\* below the persisted one, and a loop iteration lowers neither.
C10_OffsetNeverDecreases ==
    /\ (AfterStartup /\ SameIdentity) =>
           /\ st.offset >= boot.bm.offset
           /\ SameFile(bookmark, boot.bm) /\ bookmark.offset >= boot.bm.offset
    /\ AfterIter =>
           /\ st.offset >= lastIter.offset
           /\ SameFile(bookmark, lastIter.bookmark) =>
                  bookmark.offset >= lastIter.bookmark.offset

\* C10 amended: the same, except for a startup that finds the persisted
\* offset beyond the end of the file (the file was truncated): that startup
\* lowers the offset to the current end-of-file.
C10_NeverDecreasesUnlessOversize ==
    /\ (AfterStartup /\ SameIdentity /\ boot.bm.offset <= boot.size) =>
           /\ st.offset >= boot.bm.offset
           /\ SameFile(bookmark, boot.bm) /\ bookmark.offset >= boot.bm.offset
    /\ AfterIter =>
           /\ st.offset >= lastIter.offset
           /\ SameFile(bookmark, lastIter.bookmark) =>
                  bookmark.offset >= lastIter.bookmark.offset

C10_Witness ==
    /\ lastOp = "iter_ok"
    /\ SameFile(bookmark, lastIter.bookmark)
    /\ bookmark.inode = pathInode
    /\ lastIter.bookmark.offset > 0
    /\ bookmark.offset > lastIter.bookmark.offset
    /\ st.offset > lastIter.offset

\* C11: whichever step of save_state a crash or an error interrupts,
\* STATE_PATH holds the bookmark it held before the call or the complete new
\* one, never a partly written file, and load_state reads the previous or the
\* new position, never the zero position in place of an existing bookmark. A
\* call that returns has installed the new bookmark; a call that raised has
\* left the previous one, as save_state(s, bm, how) says.
C11_AtomicSave ==
    /\ bookmark.kind # "partial"
    /\ sv.how # "none" \/ sv.pc # "idle" =>
          /\ bookmark \in {sv.prev, Json(sv.s.inode, sv.s.offset)}
          /\ load_state(bookmark) \in {load_state(sv.prev), sv.s}
    /\ sv.pc \in {"open", "dump", "replace"} => bookmark = sv.prev
    /\ sv.how \in SaveOutcomes => bookmark = save_state(sv.s, sv.prev, sv.how)
    /\ sv.how = "killed" => bookmark = sv.prev

\* Killed after the temporary file was written but before the rename, with a
\* previous bookmark of another position in place.
C11_Witness ==
    /\ sv.how = "killed"
    /\ tmpfile = Json(sv.s.inode, sv.s.offset)
    /\ sv.prev.kind = "json"
    /\ load_state(sv.prev) # sv.s
    /\ sv.prev.offset > 0
    /\ bookmark = sv.prev

\* The offset a restart would recover, behind the committed offset.
Lag == st.offset - load_state(bookmark).offset
LagBefore == lastIter.offset - load_state(lastIter.bookmark).offset

\* C12: while the loop runs, the offset recoverable from the bookmark file is
\* never ahead of the committed offset and lags it by no more than the lines
\* forwarded within one throttle interval: startup leaves no lag, a line
\* forwarded once the interval has passed is saved and leaves no lag, a line
\* forwarded within the interval adds just its own length, and a failed
\* forward adds nothing.
C12_BoundedLag ==
    pc = "running" =>
        /\ Lag >= 0
        /\ lastOp = "startup" => Lag = 0
        /\ lastOp = "iter_ok" /\ lastIter.due => Lag = 0
        /\ lastOp = "iter_ok" /\ ~lastIter.due =>
              Lag = LagBefore + (fpos - lastIter.fpos)
        /\ lastOp = "iter_fail" => Lag = LagBefore /\ overdue

\* A line forwarded inside the interval is not saved, and then the interval
\* passes with nothing more to read: the lag stays, one line long.
C12_Witness ==
    /\ pc = "running"
    /\ lastOp = "idle"
    /\ overdue
    /\ Lag > 0
    /\ readline(files[fInode], fpos) = fpos

\* An attempt succeeds when the server answers with a 2xx status; a network
\* error, a timeout and any other status are failures.
Succeeded(k) == rq.resp[k] = "2xx"

\* C13: a returned post_with_retry has made at most RETRY_MAX attempts and none
\* after the first that succeeded, has returned True exactly when an attempt
\* succeeded, has returned False only after RETRY_MAX failed attempts, and has
\* waited k times RETRY_BACKOFF after its k-th failed attempt.
C13_RetryContract ==
    rq.pc = "returned" =>
        /\ rq.i \in 1..RETRY_MAX
        /\ \A k \in 1..(rq.i - 1) : ~Succeeded(k)
        /\ rq.result <=> \E k \in 1..rq.i : Succeeded(k)
        /\ ~rq.result => rq.i = RETRY_MAX /\ \A k \in 1..RETRY_MAX : ~Succeeded(k)
        /\ \A k \in 1..Len(rq.waits) : rq.waits[k] = k * RETRY_BACKOFF
        /\ Len(rq.waits) = IF rq.result THEN rq.i - 1 ELSE rq.i

\* C14: a record whose attempts all failed never ends the tail loop: the
\* process is still running after it, with the file handle past the failed
\* line, ready to read the next one.
C14_FailureKeepsLoopRunning ==
    /\ lastOp # "fail_died"
    /\ lastOp = "iter_fail" =>
          /\ pc = "running"
          /\ fpos > lastIter.fpos
          /\ fpos = readline(files[fInode], lastIter.fpos)

\* The line after a failed one has been read and forwarded.
C14_Witness ==
    /\ lastOp = "iter_ok"
    /\ pc = "running"
    /\ lastIter.fpos > lastIter.offset

\* C15: when save_state raises, at startup or after a forwarded line, the
\* tail loop keeps running with its in-memory position.
C15_SaveFailureKeepsLoopRunning ==
    lastOp \in {"save_died", "startup_died"} => pc = "running"

Running == pc = "running"
StoredOffset == IF bookmark.kind \in {"json", "legacy"} THEN bookmark.offset ELSE 0

\* C35 as stated: in every state of a run after startup, the offset in the
\* bookmark file <= st.offset <= the read position of the open handle, and
\* the identity in the bookmark file is the inode resolved at startup.
C35_BookmarkBehindMemory ==
    Running =>
        /\ bookmark.kind = "json"
        /\ bookmark.inode = fInode
        /\ bookmark.offset <= st.offset
        /\ st.offset <= fpos

\* C35 amended: in every state of a run after startup, the offset in the
\* bookmark file <= st.offset <= the read position of the open handle,
\* st.inode is the inode resolved at startup, and the bookmark file either
\* carries that identity or is still the legacy bare offset the run resumed
\* from, which carries none.
C35_BookmarkBehindMemoryOrLegacy ==
    Running =>
        /\ bookmark.kind \in {"json", "legacy"}
        /\ bookmark.kind = "json" => bookmark.inode = fInode
        /\ bookmark.kind = "legacy" => bookmark.offset # 0
        /\ st.inode = fInode
        /\ StoredOffset <= st.offset
        /\ st.offset <= fpos

C35_Witness ==
    /\ Running
    /\ lastOp = "iter_fail"
    /\ bookmark.kind = "json"
    /\ bookmark.offset < st.offset
    /\ st.offset < fpos

\* The file at the log path holds lines the open handle cannot reach: it is
\* another file than the one opened at startup, or it is shorter than the
\* read position.
PathOutOfReach ==
    /\ Running
    /\ files[pathInode] # <<>>
    /\ (fInode # pathInode \/ fpos > _file_size(files[pathInode]))

PathCaughtUp == fInode = pathInode /\ fpos = _file_size(files[pathInode])

\* C32: after a rotation or truncation while the loop runs, the lines written
\* to the file at the log path are eventually read by the same run (or the
\* run has ended).
C32_RotationEventuallyFollowed == PathOutOfReach ~> (~Running \/ PathCaughtUp)

\* ------------------------------------------------ claims: the loop body
Posted == lp.at = "posted" /\ ~lp.raised
TheCall == lp.calls[1]
ParsedLine == parse_syslog_line(lp.line)

\* The texts the Desensitizer replaces
RawIPs == {h \in Hosts : mask_host(h) # h}
NoRawMsg(msg) == \A i \in 1..Len(msg) : msg[i].s = "host" => msg[i].host \notin RawIPs

\* C31: with masking enabled, host and message of every payload handed to
\* post_with_retry are the outputs of mask_text, title and fingerprint are
\* derived from those, and no address of the raw line is in the payload; the
\* raw line goes to the tap file alone, and only when the tap is enabled.
C31_OnlyMaskedLeaves ==
    /\ lp.at = "posted" => lp.tapped \in (IF lp.cfg.tap THEN {<<>>, <<lp.line>>} ELSE {<<>>})
    /\ (Posted /\ lp.cfg.desensitize) =>
          \A i \in 1..Len(lp.calls) :
             LET c == lp.calls[i].payload
             IN /\ c.host = mask_word(ParsedLine.host)
                /\ c.msg = mask_msg(ParsedLine.msg)
                /\ c.masked
                /\ c.host \notin RawIPs
                /\ NoRawMsg(c.msg)
                /\ IF lp.calls[i].url = "EVENT_API_URL"
                   THEN /\ c.title = classify_as_event(c.msg, c.host).title
                        /\ c.fingerprint = classify_as_event(c.msg, c.host).fingerprint
                        /\ c.category = "SWITCH_LINK" => c.title[1] \notin RawIPs
                        /\ c.category = "SWITCH_LINK" => c.fingerprint[2][2] \notin RawIPs
                   ELSE /\ c.fingerprint = stable_fingerprint(<<c.host, c.source, c.msg>>)
                        /\ c.title = <<>>

C31_Witness ==
    /\ Posted
    /\ lp.cfg = [desensitize |-> TRUE, tap |-> TRUE]
    /\ lp.tapped = <<lp.line>>
    /\ ParsedLine.host \in RawIPs
    /\ TheCall.url = "EVENT_API_URL"
    /\ TheCall.payload.title[1] = IP_TOKEN

\* C33: the mask_stats of a forwarded record give, per token kind, the number
\* of substitutions made in the line's host and message.
C33_StatsCountSubstitutions ==
    (Posted /\ lp.cfg.desensitize) =>
        TheCall.payload.mask_stats =
            substitutions(subs_word(ParsedLine.host) + subs_msg(ParsedLine.msg))

Returned == dl.op \in {"hit", "new"} /\ ~dl.raised

\* Every invocation so far was made under the secret of the present instance.
FixedSecret ==
    \A k \in Secrets \ {des.secret_key}, r \in Raws : issued[k, r] = NoTok

\* C16: with one secret in use, a raw value gets the same token in every
\* invocation: each token returned equals the first one handed out for that
\* raw value, by this instance or an earlier one, whether the mapping file of
\* the earlier invocation is there, is gone or was left cut short.
C16_SameTokenPerSecret ==
    Returned /\ FixedSecret => dl.token = issued[des.secret_key, dl.raw]

\* A later instance, started without the mapping file, computes the token
\* anew for a raw value an earlier instance has mapped.
C16_Witness ==
    /\ Returned
    /\ FixedSecret
    /\ dl.op = "new"
    /\ dl.again
    /\ dl.file0 = MapAbsent
    /\ dl.token = issued[des.secret_key, dl.raw]

\* C17: every token returned is "<" + kind + ":" + digest + ">" with the kind
\* requested and the digest of the raw value under the configured secret.
C17_TokenOfConfiguredSecret ==
    Returned => dl.token = token_of(kind_of(dl.raw), des.secret_key, dl.raw)

\* C18: an instance with reversible disabled holds an empty reverse map, and
\* the mapping file it has written holds an empty reverse map.
C18_NoReverseMapUnlessReversible ==
    des.up /\ ~des.reversible =>
        /\ des._rev = {}
        /\ dl.op = "new" /\ dl.how = "ok" => mapfile.rev = {}

\* C19: whatever step of _save_map fails, desensitize_line returns the masked
\* text and the new entry is in the in-memory mapping.
C19_SaveFailureSwallowed ==
    dl.op = "new" /\ dl.how # "ok" =>
        /\ ~dl.raised
        /\ dl.token = des._map[dl.raw]
        /\ dl.token # NoTok

\* C20: a desensitize_line call keeps every entry the forward mapping had,
\* with its token; on a mapped raw value it changes neither the mapping nor
\* the file; and when it has created an entry and the save succeeded, the
\* file holds exactly the in-memory forward mapping.
C20_MappingOnlyGrows ==
    dl.op \in {"hit", "new"} =>
        /\ \A r \in Raws : dl.map0[r] # NoTok => des._map[r] = dl.map0[r]
        /\ dl.op = "hit" => des._map = dl.map0 /\ mapfile = dl.file0
        /\ dl.op = "new" =>
              /\ dl.map0[dl.raw] = NoTok
              /\ des._map[dl.raw] # NoTok
              /\ \A r \in Raws \ {dl.raw} : des._map[r] = dl.map0[r]
        /\ dl.op = "new" /\ dl.how = "ok" =>
              mapfile.kind = "json" /\ mapfile.map = des._map

\* A second entry is created and saved next to an earlier one.
C20_Witness ==
    /\ dl.op = "new"
    /\ dl.how = "ok"
    /\ \E r \in Raws : dl.map0[r] # NoTok
    /\ mapfile.kind = "json"
    /\ mapfile.map = des._map
    /\ \A r \in Raws : des._map[r] # NoTok

\* ========================================================= claims: syslog
\* The same message with its two ports the other way round.
swap_ports(m) == [m EXCEPT !.body.p1 = m.body.p2, !.body.p2 = m.body.p1]

\* An H3C message "MAC address m has been moving between port A and port B".
H3CFlap(m) == _H3C_HDR(m) /\ m.body.k = "flap"
Unordered(b) == {b.p1, b.p2}

\* C21: parse_syslog gives an H3C MAC-flapping message and the same message
\* with its ports swapped the same fingerprint, the one of MAC 5489-98b3-2111
\* between Gi1/0/48 and Gi2/0/48 is syslog|MAC_FLAPPING|5489-98b3-2111|
\* Gi1/0/48|Gi2/0/48 in both orders, and a message with another MAC address or
\* another pair of ports gets another fingerprint.
C21_PortOrderInvariant ==
    H3CFlap(api.req.msg) =>
        LET m == api.req.msg
            fp == api.ev.parsed.fingerprint
        IN /\ fp = parse_syslog(swap_ports(m)).fingerprint
           /\ (m.body.mac.hex = "548998b32111"
                 /\ Unordered(m.body) = {"Gi1/0/48", "Gi2/0/48"}) =>
                 fp = <<"syslog", "MAC_FLAPPING",
                        [hex |-> "548998b32111", style |-> "dash"],
                        "Gi1/0/48", "Gi2/0/48">>
           /\ \A n \in Msgs :
                 (H3CFlap(n) /\ (n.body.mac.hex # m.body.mac.hex
                                   \/ Unordered(n.body) # Unordered(m.body))) =>
                     parse_syslog(n).fingerprint # fp

\* The same line with the two ports of every flapping sentence swapped
swap_seg(seg) == IF seg.s = "flap" THEN [seg EXCEPT !.p1 = seg.p2, !.p2 = seg.p1] ELSE seg
swap_line(line) ==
    [line EXCEPT !.segs = [i \in 1..Len(line.segs) |-> swap_seg(line.segs[i])]]

FlapForwarded ==
    tl.out.route = "event" /\ tl.out.payload.category = "L2/MAC_FLAPPING"

\* C22: a MAC-flapping line and the same line with its two ports swapped get
\* the same fingerprint from classify_as_event, and so the fingerprint that
\* ingest_syslog stores for the forwarded record is the same for both orders.
C22_TailPortOrderInvariant ==
    FlapForwarded =>
        LET other == tail_forward(swap_line(tl.line))
        IN /\ other.route = "event"
           /\ other.payload.fingerprint = tl.out.payload.fingerprint
           /\ api.req # NoReq =>
                  ingest_syslog(other.payload).fingerprint = api.ev.fingerprint

\* The same request with another timestamp header in its message
restamp(req, md, tm) == [req EXCEPT !.msg.md = md, !.msg.tm = tm]

\* C23: two requests from the same host and program whose messages differ
\* only in the timestamp header get the same fingerprint from ingest_syslog,
\* whichever source supplies it.
C23_FingerprintIgnoresTimestamp ==
    (api.req # NoReq /\ api.req.msg.form = "device") =>
        \A md \in Stamps, tm \in Stamps :
            ingest_syslog(restamp(api.req, md, tm)).fingerprint = api.ev.fingerprint

\* "Dec 26 19:30:12 2025 SW01:  %%IFNET/5/LINK_UPDOWN: GigabitEthernet1/0/1 link down."
LinkDownLine ==
    [std |-> TRUE,
     segs |-> <<[s |-> "host", host |-> "SW01"], [s |-> "mod", name |-> UPDOWN],
                [s |-> "link", intf |-> "GigabitEthernet1/0/1", state |-> "down"]>>]

LinkDownRead == tl.out # NoOut /\ tl.line = LinkDownLine

\* C24 as stated: the line becomes an event of category SWITCH_LINK with title
\* "SW01 GigabitEthernet1/0/1 link down" and the fingerprint text
\* "h3c|SW01|GigabitEthernet1/0/1|link_down".
C24_LinkDownPlainFingerprint ==
    LinkDownRead =>
        /\ tl.out.route = "event"
        /\ tl.out.payload.category = "SWITCH_LINK"
        /\ tl.out.payload.title = <<"SW01", "GigabitEthernet1/0/1", "link", "down">>
        /\ tl.out.payload.fingerprint =
               <<"h3c", "SW01", "GigabitEthernet1/0/1", "link_down">>

\* C24 amended: the line becomes an event of category SWITCH_LINK with title
\* "SW01 GigabitEthernet1/0/1 link down"; its fingerprint is the first 16 hex
\* digits of the SHA-1 of "LINK|SW01|GigabitEthernet1/0/1|down".
C24_LinkDownHashedFingerprint ==
    LinkDownRead =>
        /\ tl.out.route = "event"
        /\ tl.out.payload.host = "SW01"
        /\ tl.out.payload.category = "SWITCH_LINK"
        /\ tl.out.payload.title = <<"SW01", "GigabitEthernet1/0/1", "link", "down">>
        /\ tl.out.payload.fingerprint =
               stable_fingerprint(<<"LINK", "SW01", "GigabitEthernet1/0/1", "down">>)

C24_Witness == LinkDownRead /\ tl.out.route = "event"

\* The message classify_as_event was given for the line read
ClassifiedMsg == mask_msg(parse_syslog_line(tl.line).msg)
HasShell == \E i \in 1..Len(ClassifiedMsg) : IsShell(ClassifiedMsg[i])
Matches(mark(_), what(_)) ==
    \E i, j \in 1..Len(ClassifiedMsg) :
        i < j /\ mark(ClassifiedMsg[i]) /\ what(ClassifiedMsg[j])
MatchesFlap == Matches(IsFlapMark, IsFlap)
MatchesLink == Matches(IsUpdown, IsLink)
CategoryOut == IF tl.out.route = "event" THEN tl.out.payload.category ELSE "none"

\* C25: classify_as_event takes the first rule that matches, in the order
\* shell-command exclusion, MAC flapping, link up/down: a message with the
\* shell marker is no event, one matching the flapping pattern (also when it
\* matches the link pattern) is MAC flapping, one matching only the link
\* pattern is a link event, and one matching no rule is no event.
C25_FirstRuleWins ==
    tl.out # NoOut =>
        CategoryOut = IF HasShell THEN "none"
                      ELSE IF MatchesFlap THEN "L2/MAC_FLAPPING"
                      ELSE IF MatchesLink THEN "SWITCH_LINK"
                      ELSE "none"

C25_Witness ==
    /\ tl.out # NoOut
    /\ ~HasShell /\ MatchesFlap /\ MatchesLink
    /\ CategoryOut = "L2/MAC_FLAPPING"

\* C26: a line LINE_RE does not match is forwarded as evidence with a generic
\* fingerprint, never as an event, whatever its text contains.
C26_MalformedLineIsEvidence ==
    (tl.out # NoOut /\ ~tl.line.std) =>
        /\ tl.out.route = "evidence"
        /\ tl.out.payload.fingerprint # NoFp

\* =================================================== claims: InMemoryStore
Agg(fp) == recs[_agg[fp]]
View(fp) == aevs[_agg_event[fp]]

\* C3: once the concurrent upsert_events calls have completed, each
\* fingerprint that was passed has one aggregate whose count is the number of
\* events applied by all calls and whose first_seen/last_seen are the minimum
\* and maximum of the applied timestamps: no update is lost.
C3_NoLostUpdate ==
    Quiescent =>
        \A fp \in Fingerprints :
            applied[fp] > 0 =>
                /\ _agg[fp] # 0
                /\ Agg(fp).count = applied[fp]
                /\ seen[fp].valid =>
                       /\ Instant(Agg(fp).first_seen) = seen[fp].low
                       /\ Instant(Agg(fp).last_seen) = seen[fp].high

AfterUpsert == lastUp.kind = "upsert"
AfterUpdate == AfterUpsert /\ lastUp.existed
AfterCreate == AfterUpsert /\ ~lastUp.existed /\ lastUp.fp # <<>>

\* C4: with upserts applied one at a time, a fingerprint has an aggregate
\* exactly when an event with it was passed, the aggregate's count is the
\* number of events passed with that (stripped, non-empty) fingerprint, each
\* upsert of an aggregated fingerprint raises count by exactly one (replays of
\* the same record and event_id included), and while the timestamps came in
\* increasing order first_seen is the first and last_seen the latest of them.
C4_CountEqualsApplied ==
    /\ \A fp \in Fingerprints :
          /\ (_agg[fp] = 0) <=> (applied[fp] = 0)
          /\ applied[fp] > 0 => Agg(fp).count = applied[fp]
          /\ (applied[fp] > 0 /\ incr[fp].on) =>
                 /\ Agg(fp).first_seen = incr[fp].first
                 /\ Agg(fp).last_seen = incr[fp].last
    /\ AfterUpdate => Agg(lastUp.fp).count = lastUp.before.count + 1

C4_Witness ==
    /\ AfterUpdate
    /\ lastUp.replay
    /\ lastUp.before.count >= 1
    /\ Agg(lastUp.fp).count = lastUp.before.count + 1

\* C5: for every aggregate whose applied timestamps were all valid:
\* first_seen <= last_seen; an upsert never moves last_seen earlier nor
\* first_seen later; first_seen changes only when the incoming timestamp is
\* strictly earlier, last_seen only when it is strictly later than the stored
\* bound.
C5_SeenBounds ==
    /\ \A fp \in Fingerprints :
          (applied[fp] > 0 /\ seen[fp].valid) =>
              Instant(Agg(fp).first_seen) <= Instant(Agg(fp).last_seen)
    /\ (AfterUpdate /\ seen[lastUp.fp].valid) =>
          LET old == lastUp.before
              new == Agg(lastUp.fp)
          IN /\ Instant(new.last_seen) >= Instant(old.last_seen)
             /\ Instant(new.first_seen) <= Instant(old.first_seen)
             /\ new.first_seen # old.first_seen =>
                    Instant(LastEvent.ts) < Instant(old.first_seen)
             /\ new.last_seen # old.last_seen =>
                    Instant(LastEvent.ts) > Instant(old.last_seen)

C5_Witness ==
    /\ AfterUpdate
    /\ seen[lastUp.fp].valid
    /\ Agg(lastUp.fp).first_seen # lastUp.before.first_seen
    /\ LastEvent.ts.off # lastUp.before.first_seen.off
    /\ LastEvent.ts.t >= lastUp.before.first_seen.t
    /\ Agg(lastUp.fp).last_seen = lastUp.before.last_seen

\* C6: an upsert of an event whose fingerprint had no aggregate creates the
\* aggregate with count = 1 and first_seen = last_seen = the event's
\* timestamp, and the aggregate-view event of the fingerprint with the same
\* three values.
C6_FirstSighting ==
    AfterCreate =>
        /\ lastUp.before = NoRec
        /\ _agg[lastUp.fp] # 0
        /\ Agg(lastUp.fp).count = 1
        /\ Agg(lastUp.fp).first_seen = LastEvent.ts
        /\ Agg(lastUp.fp).last_seen = LastEvent.ts
        /\ _agg_event[lastUp.fp] # 0
        /\ View(lastUp.fp).fingerprint = lastUp.fp
        /\ View(lastUp.fp).aggregate =
               [count |-> 1, first_seen |-> LastEvent.ts, last_seen |-> LastEvent.ts]

C6_Witness ==
    /\ AfterCreate
    /\ LastEvent.fingerprint # lastUp.fp
    /\ Agg(lastUp.fp).count = 1
    /\ \E g \in Fingerprints : g # lastUp.fp /\ _agg[g] # 0

\* C27: after an upsert of an event whose fingerprint already has an
\* aggregate, the aggregate-view event carries the event_id and the content
\* (title) of the event just upserted, whatever its timestamp.
C27_RepresentativeIsLatest ==
    AfterUpdate =>
        /\ View(lastUp.fp).event_id = lastUp.ev.event_id
        /\ View(lastUp.fp).title = lastUp.ev.title

UpsertStep == nUp' = nUp + 1
Unfingerprinted == AfterUpsert /\ fp_of(lastUp.ev) = <<>>
AllItems ==
    {aevs[a] : a \in 1..Len(aevs)} \cup
    {as_item(_events[i]) : i \in Unaggregated(TheStore)}
Shown == {rd.out[i] : i \in 1..Len(rd.out)}

\* C28: an upsert of an event whose fingerprint is missing, empty or
\* whitespace-only creates no aggregate and changes none; the event is stored
\* under its event_id, get_event of that id returns it, and list_events shows
\* it as an item of its own.
C28_UnfingerprintedStoredAlone ==
    [][/\ (UpsertStep /\ Unfingerprinted') =>
            /\ <<_agg, recs, _agg_event, aevs>>' = <<_agg, recs, _agg_event, aevs>>
            /\ _events' = [_events EXCEPT ![lastUp'.ev.event_id] = lastUp'.ev]
       /\ (~UpsertStep /\ Unfingerprinted /\ rd'.op = "get"
              /\ rd'.id = lastUp.ev.event_id) =>
            rd'.out = <<as_item(lastUp.ev)>>
       /\ (~UpsertStep /\ Unfingerprinted /\ rd'.op = "list"
              /\ rd'.limit >= Cardinality(AllItems)) =>
            /\ Cardinality({i \in 1..Len(rd'.out) : rd'.out[i] = as_item(lastUp.ev)}) = 1
            /\ as_item(lastUp.ev).aggregate = NoAggregate
      ]_vars

C28_Witness ==
    /\ Unfingerprinted
    /\ lastUp.ev.fingerprint = <<" ">>
    /\ rd.op = "list"
    /\ Len(aevs) = 1
    /\ Len(rd.out) = 2
    /\ as_item(lastUp.ev) \in Shown

\* The timestamp an item is listed by
listed_by(x) == IF x.aggregate # NoAggregate THEN x.aggregate.last_seen ELSE x.ts
NotOlder(x, y) ==
    (listed_by(x).valid /\ listed_by(y).valid) =>
        Instant(listed_by(x)) >= Instant(listed_by(y))

\* C29: list_events(limit) with limit >= 0 returns at most limit items, the
\* limit most recent ones of the store (all of them when there are fewer),
\* ordered by last_seen descending (the event's own timestamp for an
\* unaggregated event), with each fingerprint's aggregate at most once; the
\* order is that of the instants, for timestamps that parse.
C29_ListMostRecentFirst ==
    rd.op = "list" =>
        /\ Len(rd.out) = Min(rd.limit, Cardinality(AllItems))
        /\ Shown \subseteq AllItems
        /\ \A i, j \in 1..Len(rd.out) :
              i < j => /\ NotOlder(rd.out[i], rd.out[j])
                       /\ rd.out[i] # rd.out[j]
                       /\ (rd.out[i].aggregate # NoAggregate
                              /\ rd.out[j].aggregate # NoAggregate) =>
                             rd.out[i].fingerprint # rd.out[j].fingerprint
        /\ \A x \in Shown, y \in AllItems \ Shown : NotOlder(x, y)

C29_Witness ==
    /\ rd.op = "list"
    /\ rd.limit = 1
    /\ Len(rd.out) = 1
    /\ rd.out[1].aggregate = NoAggregate
    /\ \E y \in AllItems \ Shown :
          /\ y.aggregate # NoAggregate
          /\ listed_by(y).valid /\ listed_by(rd.out[1]).valid
          /\ Instant(listed_by(y)) < Instant(listed_by(rd.out[1]))

\* C30: an aggregate the store holds is held in every later state, with a
\* count that is not lower: no upsert_events, list_events, recent_events or
\* get_event call removes an aggregate or lowers its count.
C30_AggregatesPersist ==
    [][\A fp \in Fingerprints :
          _agg[fp] # 0 =>
              /\ _agg'[fp] # 0
              /\ recs'[_agg'[fp]].fingerprint = fp
              /\ recs'[_agg'[fp]].count >= recs[_agg[fp]].count
              /\ _agg_event[fp] # 0 =>
                     /\ _agg_event'[fp] # 0
                     /\ aevs'[_agg_event'[fp]].aggregate.count >=
                            aevs[_agg_event[fp]].aggregate.count
      ]_vars

C30_Witness ==
    /\ rd.op \in {"list", "recent", "get"}
    /\ \E fp \in Fingerprints : _agg[fp] # 0 /\ Agg(fp).count = 2

\* C36: after every sequential upsert_events call _agg and _agg_event hold
\* the same fingerprints, each aggregate view's aggregate dict equals the
\* count, first_seen and last_seen of its _agg record, its ts equals
\* last_seen, and its event_id is the id of an event present in _events.
C36_TablesAgree ==
    (Quiescent /\ nUp > 0) =>
        \A fp \in Fingerprints :
            /\ (_agg[fp] # 0) <=> (_agg_event[fp] # 0)
            /\ _agg[fp] # 0 =>
                  /\ View(fp).fingerprint = fp
                  /\ View(fp).aggregate = [count |-> Agg(fp).count,
                                            first_seen |-> Agg(fp).first_seen,
                                            last_seen |-> Agg(fp).last_seen]
                  /\ View(fp).ts = Agg(fp).last_seen
                  /\ View(fp).event_id = Agg(fp).event_id
                  /\ _events[View(fp).event_id] # NoEvent

C36_Witness ==
    /\ AfterUpdate
    /\ Agg(lastUp.fp).last_seen # lastUp.before.last_seen
    /\ Agg(lastUp.fp).first_seen # Agg(lastUp.fp).last_seen
    /\ View(lastUp.fp).ts = lastUp.ev.ts
    /\ View(lastUp.fp).aggregate.count = 2

\* C38: ingest_event(event) stores the event and returns it with event_id and
\* timestamp filled in, for every event dict passed to it.
C38_IngestEventStoresAndReturns ==
    rd.op = "ingest" =>
        /\ ~rd.raised
        /\ rd.via # ""
        /\ rd.id # ""
        /\ rd.ts # 0

\* ================================================= claims: masking twice
\* C37 as stated: desensitize_line applied to text it has masked returns the
\* text unchanged and creates no mapping entry.
C37_MaskingIdempotent ==
    mk.at = "twice" => mk.twice = mk.once
====
